---- MODULE Spec2Model ----
(***************************************************************************)
(* A model of the Myo-Logger driver (retact/Myo-Logger):                   *)
(*   - the BLED112 packet framer (bled112.py, _proc_byte / Packet),        *)
(*   - the command channel built on it (recv_packet, _send_command,        *)
(*     _wait_event, _handle_event),                                        *)
(*   - the ConsumerPool dispatcher (consumerpool.py).                      *)
(* Each part has a specification of its own (SpecFramer, SpecChan,         *)
(* SpecPool); the variables of the other parts stay at their initial value.*)
(***************************************************************************)
EXTENDS Integers, Sequences, FiniteSets, TLC

VARIABLES
    \* ---- BLED112 framer state (bled112.py:46, :84)
    buf,          \* self.buf: the bytes of the frame being accumulated
    packet_len,   \* self.packet_len: set when the length byte is read (0: not yet set)
    \* ---- the byte source driving the framer in SpecFramer
    feed,         \* bytes of the current chunk not yet given to _proc_byte
    stream,       \* history: the chunks (frames, garbage runs) begun so far
    emitted,      \* history: the packets _proc_byte returned, with the byte count at which
    nfed,         \* number of bytes given to _proc_byte so far
    \* ---- command channel state (bled112.py)
    ser,          \* self.ser: bytes the dongle has sent that recv_packet has not read yet
    written,      \* history: the byte strings given to self.ser.write
    internal,     \* self._internal_handler: NoSig (None) or the (cls, cmd) its closure h matches
    res,          \* res[0] of the _wait_event whose closure is installed (NoPacket: None)
    external,     \* self._external_handler is set (a wrapped handler) or None
    pc,           \* where the reader thread is: "idle", or in recv_packet for "run", "send", "wait"
    op,           \* the operation in progress or last finished, with the history marks at its start
    elapsed,      \* time passed since the operation began (time.time() - t0)
    ret,          \* the value the last finished operation returned
    outcome,      \* how it ended: "none", "returned", "raised"
    rx,           \* history: the packets _proc_byte completed inside recv_packet, in order
    hev,          \* history: indices in rx of the packets passed to _handle_event
    intLog,       \* history: indices in rx of the packets passed to _internal_handler
    extLog,       \* history: indices in rx of the packets passed to _external_handler
    nsent,        \* number of frames the dongle has sent
    nops,         \* number of operations called
    \* ---- ConsumerPool state (consumerpool.py)
    queues,       \* self._queues: per category, the list of queues (by registration number)
    callbacks,    \* self._callbacks: per category, the list of callbacks
    threads,      \* self._threads: per category, the list of worker threads
    q,            \* the content of each SimpleQueue, oldest first
    wstate,       \* each worker thread: "none", "waiting" (in get), "busy" (in its callback), "dead"
    calls,        \* history: the data each callback was invoked with, in order
    putlog,       \* history: everything put in each queue, in order
    regAt,        \* history: the number of enqueue_data calls made when each callback was added
    ppc,          \* the producer thread in enqueue_data: "idle", "fetch" (next queue), "put"
    pcall,        \* the enqueue_data call in progress: category, data, iterator index, queue fetched
    prod,         \* history: the category of each enqueue_data call, in order
    mpc,          \* the managing thread: "idle" or its place in pop_callback, clear_callbacks, shutdown
    mop,          \* the managing thread's operation in progress
    nregs,        \* number of add_callback calls
    nstops,       \* number of pop_callback, clear_callbacks and shutdown calls
    shutMark,     \* history: nregs and the number of enqueue_data calls when shutdown last returned
    popped,       \* history: the last pop_callback call, what it found and what it returned
    \* ---- session state (bled112.py commands, myoraw.py)
    conn,         \* self.conn: NoConn (None) or the connection handle
    spc,          \* the application thread: "idle", "next" (between two steps of a call), or
                  \* blocked in "send", "wait", "scan", "run" (recv_packet) or "join" (shutdown)
    sop,          \* the session call in progress or last finished, with the history marks at its start
    plan,         \* the steps of the call still to be made
    last,         \* what the last _send_command or _wait_event of the call returned
    sret,         \* what the call returned
    soutcome,     \* how it ended: "none", "returned", "raised"
    owed,         \* the frames the dongle has still to send in reply to the commands written
    enq,          \* history: the enqueue_data calls of the decode handler, with the packet decoded
    nev,          \* number of unsolicited events the dongle has sent
    nsops         \* number of session calls made

framerVars == <<buf, packet_len>>
feedVars   == <<feed, stream, emitted, nfed>>
chanVars   == <<ser, written, internal, res, external, pc, op, elapsed, ret, outcome,
               rx, hev, intLog, extLog, nsent, nops>>
poolVars   == <<queues, callbacks, threads, q, wstate, calls, putlog, regAt,
               ppc, pcall, prod, mpc, mop, nregs, nstops, shutMark, popped>>
sessVars   == <<conn, spc, sop, plan, last, sret, soutcome, owed, enq, nev, nsops>>
vars       == <<buf, packet_len, feed, stream, emitted, nfed,
               ser, written, internal, res, external, pc, op, elapsed, ret, outcome,
               rx, hev, intLog, extLog, nsent, nops,
               queues, callbacks, threads, q, wstate, calls, putlog, regAt,
               ppc, pcall, prod, mpc, mop, nregs, nstops, shutMark, popped,
               conn, spc, sop, plan, last, sret, soutcome, owed, enq, nev, nsops>>

-----------------------------------------------------------------------------
(* Bounds of the model *)

\* largest length byte of a generated frame
MaxLen == 2
\* longest run of garbage bytes
MaxGarbage == 2
\* number of leading positions of the buffer where a noisy line delivers any byte
MaxVaried == 2
\* number of chunks (frames or garbage runs) in one byte stream
MaxChunks == 2
\* number of frames the dongle sends in one run of the command channel
MaxPkts == 3
\* number of operations called on the command channel in one run
MaxOps == 2
\* the clock stops after this many ticks within one operation
MaxTime == 2
\* number of session calls (scan, connect, read_attr, subscribe, ...)
MaxSessOps == 3
\* number of events the dongle sends unasked during a session
MaxEvents == 2
\* number of handlers added during a session
MaxHandlers == 1
\* number of calls made on the pool (add_callback, enqueue_data, pop_callback,
\* clear_callbacks and shutdown together)
MaxCalls == 4

-----------------------------------------------------------------------------
(* Packets and the framer: bled112.py *)

\* the four type bytes _proc_byte accepts as the start of a frame
StartBytes == {0, 128, 8, 136}

\* c & 0x07
LowBits(c) == c % 8

\* "no packet": the None that _proc_byte and recv_packet return
NoPacket == [typ |-> -1, cls |-> -1, cmd |-> -1, payload |-> <<>>]

\* a packet read with the class and command one byte early
PacketShifted(ords) ==
    [typ |-> ords[1], cls |-> ords[2], cmd |-> ords[3],
     payload |-> SubSeq(ords, 5, Len(ords))]

\* Packet.__init__(ords), ords being 0-indexed in the source
Packet(ords) ==
    [typ |-> ords[1], cls |-> ords[3], cmd |-> ords[4],
     payload |-> SubSeq(ords, 5, Len(ords))]

\* a packet length computed from the whole type byte
PacketLenWide(b, c) == 4 + b[1] + c

\* the length computed when the second byte c arrives, b being [type byte]
PacketLen(b, c) == 4 + LowBits(b[1]) + c

\* an empty buffer that takes any byte as the start of a frame
IdleStepKeepAll(c) == <<c>>

\* what an empty buffer does with byte c: keep a start byte, drop anything else
IdleStep(c) == IF c \in StartBytes THEN <<c>> ELSE <<>>

\* BLED112._proc_byte(c) on buffer b and packet length pl:
\* the new buffer, the new packet length and the value returned
ProcByte(b, pl, c) ==
    IF b = <<>>
    THEN [buf |-> IdleStep(c), packet_len |-> pl, ret |-> NoPacket]
    ELSE IF Len(b) = 1
    THEN [buf |-> Append(b, c), packet_len |-> PacketLen(b, c), ret |-> NoPacket]
    ELSE LET nb == Append(b, c)
         IN  IF pl # 0 /\ Len(nb) = pl
             THEN [buf |-> <<>>, packet_len |-> pl, ret |-> Packet(nb)]
             ELSE [buf |-> nb, packet_len |-> pl, ret |-> NoPacket]

-----------------------------------------------------------------------------
(* The byte streams given to the framer *)

\* a payload of n bytes: 0x80, 0x81, ... (frame-start values inside a frame)
Payload(n) == [i \in 1..n |-> 127 + i]

\* (class, command) bytes of generated frames
FrameSigs == {<<4, 5>>, <<0, 128>>}

\* type bytes 0x80 | n, n > 0: event frames whose low bits add to the length
WideTypes == {129, 135}

\* the frame of the wire format: type, length byte, class, command, payload of
\* (type & 0x07) + length bytes
FramesOf(types) ==
    {[typ |-> t, len |-> L, cls |-> s[1], cmd |-> s[2],
      payload |-> Payload(LowBits(t) + L)] :
        t \in types, L \in 0..MaxLen, s \in FrameSigs}

FrameBytes(f) == <<f.typ, f.len, f.cls, f.cmd>> \o f.payload

NoFrame == [typ |-> -1, len |-> 0, cls |-> -1, cmd |-> -1, payload |-> <<>>]

\* noise values: a frame-start value (0x00) and two that are not
GarbageBytes == {0, 1, 255}

RECURSIVE SeqsUpTo(_, _)
SeqsUpTo(S, n) ==
    IF n = 0 THEN {<<>>}
    ELSE LET shorter == SeqsUpTo(S, n - 1)
         IN  shorter \cup {Append(s, x) : s \in shorter, x \in S}

GarbageRuns == SeqsUpTo(GarbageBytes, MaxGarbage) \ {<<>>}

\* BLED112.__init__: an empty buffer (packet_len does not exist yet)
InitBuf ==
    /\ buf = <<>>
    /\ packet_len = 0

InitFeed ==
    /\ feed = <<>>
    /\ stream = <<>>
    /\ emitted = <<>>
    /\ nfed = 0

\* the source starts sending a frame
BeginFrame ==
    /\ feed = <<>>
    /\ Len(stream) < MaxChunks
    /\ \E f \in FramesOf(StartBytes \cup WideTypes) :
        /\ feed' = FrameBytes(f)
        /\ stream' = Append(stream, [kind |-> "frame", frame |-> f, bytes |-> FrameBytes(f)])
    /\ UNCHANGED <<buf, packet_len, emitted, nfed>>
    /\ UNCHANGED <<chanVars, poolVars, sessVars>>

\* the source starts sending line noise
BeginGarbage ==
    /\ feed = <<>>
    /\ Len(stream) < MaxChunks
    /\ \E g \in GarbageRuns :
        /\ feed' = g
        /\ stream' = Append(stream, [kind |-> "garbage", frame |-> NoFrame, bytes |-> g])
    /\ UNCHANGED <<buf, packet_len, emitted, nfed>>
    /\ UNCHANGED <<chanVars, poolVars, sessVars>>

\* one call of _proc_byte on the next byte of the stream
FeedByte ==
    /\ feed # <<>>
    /\ LET r == ProcByte(buf, packet_len, Head(feed))
       IN  /\ buf' = r.buf
           /\ packet_len' = r.packet_len
           /\ emitted' = IF r.ret = NoPacket THEN emitted
                         ELSE Append(emitted, [pkt |-> r.ret, at |-> nfed + 1])
    /\ feed' = Tail(feed)
    /\ nfed' = nfed + 1
    /\ UNCHANGED stream
    /\ UNCHANGED <<chanVars, poolVars, sessVars>>

NextFramer == BeginFrame \/ BeginGarbage \/ FeedByte

\* the bytes a noisy line delivers where the framer looks at the value: the
\* four start bytes, two bytes that are none (7 and 255 have every low bit
\* set), and as length bytes the smallest and the largest
NoiseBytes == StartBytes \cup {7, 255}

\* the byte delivered where _proc_byte only appends: a start byte
FillByte == 128

\* one call of _proc_byte on a byte of a noisy line, whatever the buffer holds:
\* any of NoiseBytes at the first MaxVaried positions of the buffer, FillByte
\* further on
FeedNoise ==
    /\ \E c \in (IF Len(buf) < MaxVaried THEN NoiseBytes ELSE {FillByte}) :
        LET r == ProcByte(buf, packet_len, c)
        IN  /\ buf' = r.buf
            /\ packet_len' = r.packet_len
    /\ UNCHANGED feedVars
    /\ UNCHANGED <<chanVars, poolVars, sessVars>>

NextNoise == FeedNoise

-----------------------------------------------------------------------------
(* Framer claims *)

\* chunks whose bytes have all been fed
NComplete == IF feed = <<>> THEN Len(stream) ELSE Len(stream) - 1

RECURSIVE EndPos(_)
\* the number of bytes in chunks 1..i
EndPos(i) == IF i = 0 THEN 0 ELSE EndPos(i - 1) + Len(stream[i].bytes)

\* the packet a frame encodes, read off the frame's fields
PacketOfFrame(f) == [typ |-> f.typ, cls |-> f.cls, cmd |-> f.cmd, payload |-> f.payload]

\* the emission a frame chunk should cause: its packet, at its last byte
Expected(i) == [pkt |-> PacketOfFrame(stream[i].frame), at |-> EndPos(i)]

\* the bytes of the chunk in progress already fed
FedPart ==
    IF feed = <<>> THEN <<>>
    ELSE LET b == stream[Len(stream)].bytes
         IN  SubSeq(b, 1, Len(b) - Len(feed))

IsStdFrame(c) == c.kind = "frame" /\ c.frame.typ \in StartBytes

\* C1: a stream that is a concatenation of well-formed frames (type byte one of
\* 0x00, 0x80, 0x08, 0x88) yields exactly one packet per frame, at the frame's
\* last byte, in order, with the frame's type, class, command and payload; the
\* buffer is empty after each emission and holds the fed part of the frame in
\* progress otherwise, and nothing is emitted on any other byte.
C1_OnePacketPerFrame ==
    (\A i \in 1..Len(stream) : IsStdFrame(stream[i]))
        => /\ emitted = [i \in 1..NComplete |-> Expected(i)]
           /\ buf = FedPart

\* C1 witness: two frames, the second with a payload, fed to the end.
C1_Witness ==
    /\ Len(stream) = 2 /\ feed = <<>>
    /\ \A i \in 1..2 : IsStdFrame(stream[i])
    /\ stream[1].frame.typ # stream[2].frame.typ
    /\ Len(stream[2].frame.payload) = 2
    /\ Len(emitted) = 2

IsGarbage(c) == c.kind = "garbage"

\* a garbage run followed by one well-formed frame, fed to the end
GarbageThenFrame ==
    /\ Len(stream) = 2 /\ feed = <<>>
    /\ IsGarbage(stream[1]) /\ IsStdFrame(stream[2])

NoStartByteIn(s) == \A k \in 1..Len(s) : s[k] \notin StartBytes

\* C2 as stated: any garbage bytes followed by one well-formed frame yield
\* exactly one packet, equal to the frame.
C2_AnyGarbageThenFrame ==
    GarbageThenFrame => emitted = <<Expected(2)>>

\* C2 amended: garbage bytes none of which is a frame-start value (0x00, 0x80,
\* 0x08, 0x88), followed by one well-formed frame, yield exactly one packet,
\* equal to the frame and emitted at its last byte; every garbage byte is
\* dropped and nothing is emitted before the frame ends.
C2_NonStartGarbageThenFrame ==
    (/\ Len(stream) \in 1..2
     /\ IsGarbage(stream[1]) /\ NoStartByteIn(stream[1].bytes)
     /\ Len(stream) = 2 => IsStdFrame(stream[2]))
        => /\ emitted = IF Len(stream) = 2 /\ feed = <<>> THEN <<Expected(2)>> ELSE <<>>
           /\ buf = IF Len(stream) = 2 THEN FedPart ELSE <<>>

\* C2 witness: two noise bytes, then a frame with a payload, one packet out.
C2_Witness ==
    /\ GarbageThenFrame
    /\ NoStartByteIn(stream[1].bytes) /\ Len(stream[1].bytes) = 2
    /\ Len(stream[2].frame.payload) > 0
    /\ Len(emitted) = 1

\* C3 as stated: a single frame with type byte 0x80 | n (n in 0..7) and length
\* byte L is emitted as one packet after exactly 4 + n + L bytes, and not before.
C3_WideFrameEmitted ==
    (/\ Len(stream) = 1 /\ stream[1].kind = "frame"
     /\ stream[1].frame.typ \in 128..135)
        => emitted = IF feed = <<>>
                     THEN <<[pkt |-> PacketOfFrame(stream[1].frame),
                             at |-> 4 + LowBits(stream[1].frame.typ) + stream[1].frame.len]>>
                     ELSE <<>>

-----------------------------------------------------------------------------
(* The command channel: recv_packet, _handle_event, _wait_event,           *)
(* _send_command and the handler property of BLED112                       *)

\* _internal_handler is None
NoSig == <<-1, -1>>

\* recv_packet(timeout=None)
NoTimeout == -1

Sig(p) == <<p.cls, p.cmd>>

\* the payload of an attribute value event: connection, attribute handle
\* (2 bytes, little endian), value type, value length, value
AttrPayload == <<0, 17, 0, 1, 1, 42>>

DevFrame(t, sig, pay) ==
    [typ |-> t, len |-> Len(pay), cls |-> sig[1], cmd |-> sig[2], payload |-> pay]

\* the frames the dongle may send: events (0x80) that are a connection status
\* (3, 0) or an attribute value (4, 5), the latter with a full payload or with
\* none; responses (0x00) carrying the same (class, command) pairs; and a frame
\* of the reserved type 0x08
DevFrames ==
    {DevFrame(128, <<3, 0>>, <<>>), DevFrame(128, <<4, 5>>, <<>>),
     DevFrame(128, <<4, 5>>, AttrPayload),
     DevFrame(0, <<3, 0>>, <<>>), DevFrame(0, <<4, 5>>, <<>>),
     DevFrame(8, <<4, 5>>, AttrPayload)}

\* wrapped_handle_data(packet) raises: struct.unpack('<BHB', payload[:4]) of an
\* attribute value event whose payload has fewer than 4 bytes
ExtRaises(p) == Sig(p) = <<4, 5>> /\ Len(p.payload) < 4

\* a test that takes every packet that is not an event for the response
IsNotEvent(p) == p.typ # 128

\* _send_command's test for the response it waits for: p.typ == 0
IsResponse(p) == p.typ = 0

\* recv_packet's test for an event: ret.typ == 0x80
IsEvent(p) == p.typ = 128

\* the bytes _send_command writes: struct.pack('<4B', 0, len(payload), cls, cmd) + payload
CommandBytes(cls, cmd, payload) == <<0, Len(payload), cls, cmd>> \o payload

\* the handler state a dispatch reads and writes
HState == [res |-> res, hev |-> hev, intLog |-> intLog, extLog |-> extLog, raised |-> FALSE]

\* _wait_event's closure h(p), installed with signature sig
InternalCall(h, sig, n, p) ==
    [h EXCEPT !.intLog = Append(@, n),
              !.res = IF p.cls = sig[1] /\ p.cmd = sig[2] THEN p ELSE @]

\* the call of _external_handler (wrapped_handle_data) on p
ExternalCall(h, n, p) ==
    [h EXCEPT !.extLog = Append(@, n), !.raised = ExtRaises(p)]

\* a dispatch that calls the external handler only when no internal one is set
HandleEventElif(h, n, p) ==
    LET h1 == [h EXCEPT !.hev = Append(@, n)]
    IN  IF internal # NoSig THEN InternalCall(h1, internal, n, p)
        ELSE IF external THEN ExternalCall(h1, n, p) ELSE h1

\* _handle_event(p), p being rx[n]: the internal handler if set, then the external one if set
HandleEvent(h, n, p) ==
    LET h1 == [h EXCEPT !.hev = Append(@, n)]
        h2 == IF internal # NoSig THEN InternalCall(h1, internal, n, p) ELSE h1
    IN  IF external THEN ExternalCall(h2, n, p) ELSE h2

\* a _wait_event that returns with its closure still installed
InternalLeftInstalled == internal

\* _internal_handler once _wait_event has returned: None
InternalAfterWait == NoSig

\* BLED112.__init__ and the state of the reader before any call
InitChan ==
    /\ ser = <<>>
    /\ written = <<>>
    /\ internal = NoSig
    /\ res = NoPacket
    /\ external = FALSE
    /\ pc = "idle"
    /\ op = [name |-> "none", cls |-> -1, cmd |-> -1, payload |-> <<>>,
             timeout |-> NoTimeout, rx0 |-> 0, hev0 |-> 0, ext0 |-> 0]
    /\ elapsed = 0
    /\ ret = NoPacket
    /\ outcome = "none"
    /\ rx = <<>>
    /\ hev = <<>>
    /\ intLog = <<>>
    /\ extLog = <<>>
    /\ nsent = 0
    /\ nops = 0

\* the record of a call that begins now
NewOp(name, cls, cmd, payload, timeout) ==
    [name |-> name, cls |-> cls, cmd |-> cmd, payload |-> payload, timeout |-> timeout,
     rx0 |-> Len(rx), hev0 |-> Len(hev), ext0 |-> Len(extLog)]

\* the dongle sends one frame. It arrives whole, and once the reader has taken
\* the bytes of the frame before it: the reader sees the same byte sequences as
\* with any other arrival times.
DeviceSend ==
    /\ nsent < MaxPkts
    /\ ser = <<>>
    /\ \E f \in DevFrames : ser' = ser \o FrameBytes(f)
    /\ nsent' = nsent + 1
    /\ UNCHANGED <<written, internal, res, external, pc, op, elapsed, ret, outcome,
                   rx, hev, intLog, extLog, nops>>
    /\ UNCHANGED <<framerVars, feedVars, poolVars, sessVars>>

\* the handler setter: backend.handler = func (callable) or None
SetHandler ==
    /\ pc = "idle" /\ nops < MaxOps
    /\ \E f \in BOOLEAN : external' = f
    /\ op' = NewOp("handler", -1, -1, <<>>, NoTimeout)
    /\ outcome' = "returned"
    /\ ret' = NoPacket
    /\ nops' = nops + 1
    /\ UNCHANGED <<ser, written, internal, res, pc, elapsed, rx, hev, intLog, extLog, nsent>>
    /\ UNCHANGED <<framerVars, feedVars, poolVars, sessVars>>

\* _send_command(cls, cmd, payload) is called: the write, then the read loop
CallSendCommand ==
    /\ pc = "idle" /\ nops < MaxOps
    /\ \E c \in {<<3, 0, <<0>>>>, <<6, 4, <<>>>>} :
        /\ op' = NewOp("send", c[1], c[2], c[3], NoTimeout)
        /\ written' = Append(written, CommandBytes(c[1], c[2], c[3]))
    /\ pc' = "send"
    /\ elapsed' = 0
    /\ outcome' = "none"
    /\ ret' = NoPacket
    /\ nops' = nops + 1
    /\ UNCHANGED <<ser, internal, res, external, rx, hev, intLog, extLog, nsent>>
    /\ UNCHANGED <<framerVars, feedVars, poolVars, sessVars>>

\* _wait_event(cls, cmd) is called: res = [None], the closure is installed
CallWaitEvent ==
    /\ pc = "idle" /\ nops < MaxOps
    /\ \E sig \in {<<3, 0>>, <<4, 5>>} :
        /\ op' = NewOp("wait", sig[1], sig[2], <<>>, NoTimeout)
        /\ internal' = sig
    /\ res' = NoPacket
    /\ pc' = "wait"
    /\ elapsed' = 0
    /\ outcome' = "none"
    /\ ret' = NoPacket
    /\ nops' = nops + 1
    /\ UNCHANGED <<ser, written, external, rx, hev, intLog, extLog, nsent>>
    /\ UNCHANGED <<framerVars, feedVars, poolVars, sessVars>>

\* MyoRaw.run(timeout): one recv_packet(timeout)
CallRun ==
    /\ pc = "idle" /\ nops < MaxOps
    /\ \E t \in {NoTimeout, 1} : op' = NewOp("run", -1, -1, <<>>, t)
    /\ pc' = "run"
    /\ elapsed' = 0
    /\ outcome' = "none"
    /\ ret' = NoPacket
    /\ nops' = nops + 1
    /\ UNCHANGED <<ser, written, internal, res, external, rx, hev, intLog, extLog, nsent>>
    /\ UNCHANGED <<framerVars, feedVars, poolVars, sessVars>>

\* time passes while the reader is blocked on an empty transport, in a wait or
\* in a read with a deadline
Tick ==
    /\ pc = "wait" \/ (pc = "run" /\ op.timeout # NoTimeout)
    /\ ser = <<>>
    /\ elapsed < MaxTime
    /\ elapsed' = elapsed + 1
    /\ UNCHANGED <<ser, written, internal, res, external, pc, op, ret, outcome,
                   rx, hev, intLog, extLog, nsent, nops>>
    /\ UNCHANGED <<framerVars, feedVars, poolVars, sessVars>>

\* recv_packet(timeout): the deadline has passed, it returns None
RecvTimeout ==
    /\ pc = "run" /\ op.timeout # NoTimeout /\ elapsed >= op.timeout
    /\ pc' = "idle"
    /\ ret' = NoPacket
    /\ outcome' = "returned"
    /\ UNCHANGED <<ser, written, internal, res, external, op, elapsed,
                   rx, hev, intLog, extLog, nsent, nops>>
    /\ UNCHANGED <<framerVars, feedVars, poolVars, sessVars>>

\* One byte read by recv_packet and everything that follows in the same thread
\* before the next read: _proc_byte; for a completed packet, recv_packet's
\* dispatch of an event, the return to the caller, and the caller's reaction:
\*   run:           returns the packet;
\*   _send_command: returns a response, passes anything else to _handle_event
\*                  and reads on;
\*   _wait_event:   returns res[0] once it is set, uninstalling the closure,
\*                  else reads on.
\* An exception raised by the external handler ends the operation.
RecvByte ==
    /\ pc \in {"run", "send", "wait"}
    /\ ser # <<>>
    /\ op.timeout # NoTimeout => elapsed < op.timeout
    /\ LET r  == ProcByte(buf, packet_len, Head(ser))
           p  == r.ret
           n  == Len(rx) + 1
           h1 == IF IsEvent(p) THEN HandleEvent(HState, n, p) ELSE HState
           h2 == IF pc = "send" /\ ~h1.raised /\ ~IsResponse(p)
                 THEN HandleEvent(h1, n, p) ELSE h1
           done == \/ h2.raised
                   \/ pc = "run"
                   \/ pc = "send" /\ IsResponse(p)
                   \/ pc = "wait" /\ h2.res # NoPacket
       IN  /\ ser' = Tail(ser)
           /\ buf' = r.buf
           /\ packet_len' = r.packet_len
           /\ IF p = NoPacket
              THEN UNCHANGED <<internal, res, pc, ret, outcome, rx, hev, intLog, extLog>>
              ELSE /\ rx' = Append(rx, p)
                   /\ hev' = h2.hev
                   /\ intLog' = h2.intLog
                   /\ extLog' = h2.extLog
                   /\ res' = h2.res
                   /\ pc' = IF done THEN "idle" ELSE pc
                   /\ outcome' = IF h2.raised THEN "raised"
                                 ELSE IF done THEN "returned" ELSE outcome
                   /\ ret' = IF done /\ ~h2.raised
                             THEN (IF pc = "wait" THEN h2.res ELSE p)
                             ELSE ret
                   /\ internal' = IF pc = "wait" /\ done /\ ~h2.raised
                                  THEN InternalAfterWait ELSE internal
    /\ UNCHANGED <<written, external, op, elapsed, nsent, nops>>
    /\ UNCHANGED <<feedVars, poolVars, sessVars>>

NextChan ==
    \/ DeviceSend
    \/ SetHandler
    \/ CallSendCommand
    \/ CallWaitEvent
    \/ CallRun
    \/ Tick
    \/ RecvTimeout
    \/ RecvByte

-----------------------------------------------------------------------------
(* Command channel claims *)

\* the entries of history s added after its first n
Since(s, n) == {s[j] : j \in (n + 1)..Len(s)}

\* indices in rx of the packets received since the operation began
OpRx == (op.rx0 + 1)..Len(rx)

Returned(name) == op.name = name /\ pc = "idle" /\ outcome = "returned"

\* C4: _send_command writes 0x00, len(payload), cls, cmd and the payload, and
\* returns the first packet of type 0x00 received after the write; every event
\* (type 0x80) received before it has been passed to _handle_event, and to the
\* external handler when one is set, by the time of the next read and so before
\* the return.
C4_SendCommand ==
    op.name = "send" =>
        /\ written[Len(written)] = <<0, Len(op.payload), op.cls, op.cmd>> \o op.payload
        /\ \A i \in OpRx :
              rx[i].typ = 128 => /\ i \in Since(hev, op.hev0)
                                 /\ external => i \in Since(extLog, op.ext0)
        /\ pc = "send" => \A i \in OpRx : rx[i].typ # 0
        /\ Returned("send") =>
              /\ OpRx # {}
              /\ ret = rx[Len(rx)]
              /\ ret.typ = 0
              /\ \A i \in OpRx \ {Len(rx)} : rx[i].typ # 0

\* C4 witness: a command returned its response after an event and a frame of
\* the reserved type came first, with an external handler set.
C4_Witness ==
    /\ Returned("send")
    /\ external
    /\ \E i, j \in OpRx : rx[i].typ = 128 /\ rx[j].typ = 8
    /\ ret.typ = 0

\* whether rx[i] is an event of the awaited class and command
Awaited(i) == rx[i].typ = 128 /\ rx[i].cls = op.cls /\ rx[i].cmd = op.cmd

\* C5: while _wait_event(cls, cmd) is pending, every event received whose
\* (class, command) is not the awaited pair has reached the external handler
\* (when one is set) by the time of the next read; the wait returns the first
\* event received whose class and command are the awaited ones.
C5_WaitEvent ==
    op.name = "wait" =>
        /\ \A i \in OpRx :
              (rx[i].typ = 128 /\ ~Awaited(i) /\ external) => i \in Since(extLog, op.ext0)
        /\ pc = "wait" => \A i \in OpRx : ~Awaited(i)
        /\ Returned("wait") =>
              /\ OpRx # {}
              /\ Awaited(Len(rx))
              /\ ret = rx[Len(rx)]
              /\ \A i \in OpRx \ {Len(rx)} : ~Awaited(i)

\* C5 witness: a wait returned its event after an unrelated event, a response
\* and a frame of the reserved type went by, with an external handler set.
C5_Witness ==
    /\ Returned("wait")
    /\ external
    /\ \E i \in OpRx : rx[i].typ = 128 /\ ~Awaited(i)
    /\ \E i \in OpRx : rx[i].typ # 128 /\ rx[i].cls = op.cls /\ rx[i].cmd = op.cmd

ReservedTypes == {8, 136}

\* C19: a packet whose type byte is a reserved marker (0x08, 0x88) is framed
\* like any other, but on no path (run, _send_command, _wait_event) is it
\* passed to _handle_event, to the wait filter or to the external handler.
C19_ReservedNotDispatched ==
    \A j \in 1..Len(rx) :
        rx[j].typ \in ReservedTypes =>
            /\ j \notin Since(hev, 0)
            /\ j \notin Since(intLog, 0)
            /\ j \notin Since(extLog, 0)

-----------------------------------------------------------------------------
(* The dispatch pool: consumerpool.py.  One producer thread calls           *)
(* enqueue_data, one managing thread calls add_callback, pop_callback,      *)
(* clear_callbacks and shutdown, and every registration has a worker thread.*)
(* No lock is taken anywhere in the class: the threads interleave between   *)
(* any two list or queue operations.                                        *)

\* the data categories modelled, in the order of the DataCategory enumeration
\* (the order in which shutdown walks self._queues)
Cats == <<"EMG", "IMU">>

CatSet == {Cats[i] : i \in 1..Len(Cats)}

\* registrations, numbered in the order of the add_callback calls; the queue,
\* the worker thread and the callback of a registration carry its number
Regs == 1..MaxCalls

\* self._sentinel, the shutdown marker; data items are numbered from 1
Sentinel == 0

\* a pop that always takes the last element
RemoveLast(s, i) == SubSeq(s, 1, Len(s) - 1)

\* s without its i-th element: list.pop(i)
RemoveAt(s, i) == SubSeq(s, 1, i - 1) \o SubSeq(s, i + 1, Len(s))

\* a shutdown marker that jumps the queue
PutSentinelFirst(items) == <<Sentinel>> \o items

\* data_queue.put(self._sentinel): the marker goes behind what is queued
PutSentinel(items) == Append(items, Sentinel)

\* a put that makes the queue a stack
PutDataFirst(items, d) == <<d>> \o items

\* data_queue.put(data)
PutData(items, d) == Append(items, d)

\* a join that does not wait
JoinNoWait(w) == TRUE

\* thread.join() returns: the worker has terminated
Joined(w) == wstate[w] = "dead"

RECURSIVE Flatten(_, _)
\* the lists of the categories from the i-th on, one after the other
Flatten(lists, i) ==
    IF i > Len(Cats) THEN <<>> ELSE lists[Cats[i]] \o Flatten(lists, i + 1)

\* the number of calls made on the pool so far
NCalls == nregs + Len(prod) + nstops

NoCall == [cat |-> "none", data |-> 0, idx |-> 0, target |-> 0]

\* no pop_callback call made yet; otherwise the category and index of the last
\* call, the callback at that place and the other registrations when it was
\* made, and on return the callback returned and the number of enqueue_data
\* calls made by then
NoPop == [cat |-> "none", index |-> 0, at |-> 0,
          others |-> [d \in CatSet |-> <<>>], ret |-> 0, nprod |-> -1]

NoMop == [name |-> "none", cat |-> "none", index |-> 0, w |-> 0,
          todo |-> <<>>, joins |-> <<>>]

\* ConsumerPool.__init__, no thread running yet
InitPool ==
    /\ queues = [c \in CatSet |-> <<>>]
    /\ callbacks = [c \in CatSet |-> <<>>]
    /\ threads = [c \in CatSet |-> <<>>]
    /\ q = [w \in Regs |-> <<>>]
    /\ wstate = [w \in Regs |-> "none"]
    /\ calls = [w \in Regs |-> <<>>]
    /\ putlog = [w \in Regs |-> <<>>]
    /\ regAt = [w \in Regs |-> -1]
    /\ ppc = "idle"
    /\ pcall = NoCall
    /\ prod = <<>>
    /\ mpc = "idle"
    /\ mop = NoMop
    /\ nregs = 0
    /\ nstops = 0
    /\ shutMark = [regs |-> -1, nprod |-> -1]
    /\ popped = NoPop

\* ---- the producer thread: enqueue_data(category, data)
\*      for data_queue in self._queues[category]: data_queue.put(data)

\* the call begins: a list iterator at the first element
EnqueueCall ==
    /\ ppc = "idle"
    /\ NCalls < MaxCalls
    /\ \E c \in CatSet :
        /\ prod' = Append(prod, c)
        /\ pcall' = [cat |-> c, data |-> Len(prod) + 1, idx |-> 1, target |-> 0]
    /\ ppc' = "fetch"
    /\ UNCHANGED <<queues, callbacks, threads, q, wstate, calls, putlog, regAt,
                   mpc, mop, nregs, nstops, shutMark>>
    /\ UNCHANGED popped
    /\ UNCHANGED <<framerVars, feedVars, chanVars, sessVars>>

\* the iterator yields the next queue of the list as it is now, or ends the loop
EnqueueFetch ==
    /\ ppc = "fetch"
    /\ IF pcall.idx <= Len(queues[pcall.cat])
       THEN /\ pcall' = [pcall EXCEPT !.idx = @ + 1, !.target = queues[pcall.cat][pcall.idx]]
            /\ ppc' = "put"
       ELSE /\ pcall' = NoCall
            /\ ppc' = "idle"
    /\ UNCHANGED <<queues, callbacks, threads, q, wstate, calls, putlog, regAt,
                   prod, mpc, mop, nregs, nstops, shutMark>>
    /\ UNCHANGED popped
    /\ UNCHANGED <<framerVars, feedVars, chanVars, sessVars>>

\* data_queue.put(data) on the queue fetched
EnqueuePut ==
    /\ ppc = "put"
    /\ q' = [q EXCEPT ![pcall.target] = PutData(@, pcall.data)]
    /\ putlog' = [putlog EXCEPT ![pcall.target] = Append(@, pcall.data)]
    /\ ppc' = "fetch"
    /\ UNCHANGED <<queues, callbacks, threads, wstate, calls, regAt,
                   pcall, prod, mpc, mop, nregs, nstops, shutMark>>
    /\ UNCHANGED popped
    /\ UNCHANGED <<framerVars, feedVars, chanVars, sessVars>>

\* ---- a worker thread: run_consumer

\* data = data_queue.get() returns; the sentinel ends the thread, anything else
\* is passed to the callback
WorkerGet(w) ==
    /\ wstate[w] = "waiting"
    /\ q[w] # <<>>
    /\ q' = [q EXCEPT ![w] = Tail(@)]
    /\ IF Head(q[w]) = Sentinel
       THEN /\ wstate' = [wstate EXCEPT ![w] = "dead"]
            /\ calls' = calls
       ELSE /\ wstate' = [wstate EXCEPT ![w] = "busy"]
            /\ calls' = [calls EXCEPT ![w] = Append(@, Head(q[w]))]
    /\ UNCHANGED <<queues, callbacks, threads, putlog, regAt,
                   ppc, pcall, prod, mpc, mop, nregs, nstops, shutMark>>
    /\ UNCHANGED popped
    /\ UNCHANGED <<framerVars, feedVars, chanVars, sessVars>>

\* consumer_callback(*data) returns, after any time
WorkerReturn(w) ==
    /\ wstate[w] = "busy"
    /\ wstate' = [wstate EXCEPT ![w] = "waiting"]
    /\ UNCHANGED <<queues, callbacks, threads, q, calls, putlog, regAt,
                   ppc, pcall, prod, mpc, mop, nregs, nstops, shutMark>>
    /\ UNCHANGED popped
    /\ UNCHANGED <<framerVars, feedVars, chanVars, sessVars>>

\* ---- the managing thread

\* add_callback(category, callback): the callback, a new queue and a new
\* thread are appended to the three lists and the thread is started
AddCallback ==
    /\ mpc = "idle"
    /\ NCalls < MaxCalls
    /\ \E c \in CatSet :
        LET w == nregs + 1
        IN  /\ callbacks' = [callbacks EXCEPT ![c] = Append(@, w)]
            /\ queues' = [queues EXCEPT ![c] = Append(@, w)]
            /\ threads' = [threads EXCEPT ![c] = Append(@, w)]
            /\ wstate' = [wstate EXCEPT ![w] = "waiting"]
            /\ regAt' = [regAt EXCEPT ![w] = IF ppc = "idle" THEN Len(prod) ELSE -1]
    /\ nregs' = nregs + 1
    /\ UNCHANGED <<q, calls, putlog, ppc, pcall, prod, mpc, mop, nstops, shutMark>>
    /\ UNCHANGED popped
    /\ UNCHANGED <<framerVars, feedVars, chanVars, sessVars>>

\* pop_callback(category, index): self._queues[category].pop(index); index
\* counts from 1 here and the default -1 is the last
PopCallbackCall ==
    /\ mpc = "idle"
    /\ NCalls < MaxCalls
    /\ \E c \in CatSet : \E i \in 1..Len(queues[c]) :
        /\ mop' = [NoMop EXCEPT !.name = "pop", !.cat = c, !.index = i, !.w = queues[c][i]]
        /\ queues' = [queues EXCEPT ![c] = RemoveAt(@, i)]
        /\ popped' = [NoPop EXCEPT !.cat = c, !.index = i, !.at = callbacks[c][i],
                                   !.others = [d \in CatSet |->
                                      IF d = c THEN RemoveAt(callbacks[d], i) ELSE callbacks[d]]]
    /\ mpc' = "pop_put"
    /\ nstops' = nstops + 1
    /\ UNCHANGED <<callbacks, threads, q, wstate, calls, putlog, regAt,
                   ppc, pcall, prod, nregs, shutMark>>
    /\ UNCHANGED <<framerVars, feedVars, chanVars, sessVars>>

\* pop_callback: .put(self._sentinel) on the queue popped
PopCallbackPut ==
    /\ mpc = "pop_put"
    /\ q' = [q EXCEPT ![mop.w] = PutSentinel(@)]
    /\ putlog' = [putlog EXCEPT ![mop.w] = Append(@, Sentinel)]
    /\ mpc' = "pop_join"
    /\ UNCHANGED <<queues, callbacks, threads, wstate, calls, regAt,
                   ppc, pcall, prod, mop, nregs, nstops, shutMark>>
    /\ UNCHANGED popped
    /\ UNCHANGED <<framerVars, feedVars, chanVars, sessVars>>

\* pop_callback: self._threads[category].pop(index).join() returns, then the
\* callback is popped and returned
PopCallbackJoin ==
    /\ mpc = "pop_join"
    /\ Joined(threads[mop.cat][mop.index])
    /\ threads' = [threads EXCEPT ![mop.cat] = RemoveAt(@, mop.index)]
    /\ callbacks' = [callbacks EXCEPT ![mop.cat] = RemoveAt(@, mop.index)]
    /\ popped' = [popped EXCEPT !.ret = callbacks[mop.cat][mop.index], !.nprod = Len(prod)]
    /\ mpc' = "idle"
    /\ mop' = NoMop
    /\ UNCHANGED <<queues, q, wstate, calls, putlog, regAt,
                   ppc, pcall, prod, nregs, nstops, shutMark>>
    /\ UNCHANGED <<framerVars, feedVars, chanVars, sessVars>>

\* clear_callbacks(category) is called: its two loops walk the category's lists
ClearCallbacksCall ==
    /\ mpc = "idle"
    /\ NCalls < MaxCalls
    /\ \E c \in CatSet :
        mop' = [NoMop EXCEPT !.name = "clear", !.cat = c,
                             !.todo = queues[c], !.joins = threads[c]]
    /\ mpc' = "stop"
    /\ nstops' = nstops + 1
    /\ UNCHANGED <<queues, callbacks, threads, q, wstate, calls, putlog, regAt,
                   ppc, pcall, prod, nregs, shutMark>>
    /\ UNCHANGED popped
    /\ UNCHANGED <<framerVars, feedVars, chanVars, sessVars>>

\* shutdown() is called: its two loops walk the lists of every category
ShutdownCall ==
    /\ mpc = "idle"
    /\ NCalls < MaxCalls
    /\ mop' = [NoMop EXCEPT !.name = "shutdown",
                            !.todo = Flatten(queues, 1), !.joins = Flatten(threads, 1)]
    /\ mpc' = "stop"
    /\ nstops' = nstops + 1
    /\ UNCHANGED <<queues, callbacks, threads, q, wstate, calls, putlog, regAt,
                   ppc, pcall, prod, nregs, shutMark>>
    /\ UNCHANGED popped
    /\ UNCHANGED <<framerVars, feedVars, chanVars, sessVars>>

\* clear_callbacks, shutdown: data_queue.put(self._sentinel) on the next queue
StopPut ==
    /\ mpc = "stop"
    /\ mop.todo # <<>>
    /\ q' = [q EXCEPT ![Head(mop.todo)] = PutSentinel(@)]
    /\ putlog' = [putlog EXCEPT ![Head(mop.todo)] = Append(@, Sentinel)]
    /\ mop' = [mop EXCEPT !.todo = Tail(@)]
    /\ UNCHANGED <<queues, callbacks, threads, wstate, calls, regAt,
                   ppc, pcall, prod, mpc, nregs, nstops, shutMark>>
    /\ UNCHANGED popped
    /\ UNCHANGED <<framerVars, feedVars, chanVars, sessVars>>

\* clear_callbacks, shutdown: thread.join() returns for the next thread
StopJoin ==
    /\ mpc = "stop"
    /\ mop.todo = <<>>
    /\ mop.joins # <<>>
    /\ Joined(Head(mop.joins))
    /\ mop' = [mop EXCEPT !.joins = Tail(@)]
    /\ UNCHANGED <<queues, callbacks, threads, q, wstate, calls, putlog, regAt,
                   ppc, pcall, prod, mpc, nregs, nstops, shutMark>>
    /\ UNCHANGED popped
    /\ UNCHANGED <<framerVars, feedVars, chanVars, sessVars>>

\* clear_callbacks: the three lists of the category are cleared, and it returns
ClearCallbacksReturn ==
    /\ mpc = "stop"
    /\ mop.name = "clear"
    /\ mop.todo = <<>> /\ mop.joins = <<>>
    /\ queues' = [queues EXCEPT ![mop.cat] = <<>>]
    /\ callbacks' = [callbacks EXCEPT ![mop.cat] = <<>>]
    /\ threads' = [threads EXCEPT ![mop.cat] = <<>>]
    /\ mpc' = "idle"
    /\ mop' = NoMop
    /\ UNCHANGED <<q, wstate, calls, putlog, regAt,
                   ppc, pcall, prod, nregs, nstops, shutMark>>
    /\ UNCHANGED popped
    /\ UNCHANGED <<framerVars, feedVars, chanVars, sessVars>>

\* shutdown returns: the lists are left as they are
ShutdownReturn ==
    /\ mpc = "stop"
    /\ mop.name = "shutdown"
    /\ mop.todo = <<>> /\ mop.joins = <<>>
    /\ shutMark' = [regs |-> nregs, nprod |-> Len(prod)]
    /\ mpc' = "idle"
    /\ mop' = NoMop
    /\ UNCHANGED <<queues, callbacks, threads, q, wstate, calls, putlog, regAt,
                   ppc, pcall, prod, nregs, nstops>>
    /\ UNCHANGED popped
    /\ UNCHANGED <<framerVars, feedVars, chanVars, sessVars>>

NextPool ==
    \/ EnqueueCall
    \/ EnqueueFetch
    \/ EnqueuePut
    \/ \E w \in Regs : WorkerGet(w)
    \/ \E w \in Regs : WorkerReturn(w)
    \/ AddCallback
    \/ PopCallbackCall
    \/ PopCallbackPut
    \/ PopCallbackJoin
    \/ ClearCallbacksCall
    \/ ShutdownCall
    \/ StopPut
    \/ StopJoin
    \/ ClearCallbacksReturn
    \/ ShutdownReturn

-----------------------------------------------------------------------------
(* Dispatch pool claims *)

\* the numbers of the enqueue_data calls after the first n that were made
\* for category c, in order: the samples a callback added then must see
Stream(c, n) ==
    SelectSeq([k \in 1..Len(prod) |-> k], LAMBDA k : k > n /\ prod[k] = c)

Range(s) == {s[j] : j \in 1..Len(s)}

AllButLast(s) == SubSeq(s, 1, Len(s) - 1)

\* whether the broadcast in progress has already put its item in the queue at
\* place i of the list
AlreadyPut(i) == i < pcall.idx /\ ~(ppc = "put" /\ pcall.target = queues[pcall.cat][i])

\* C7: as long as no callback is being removed, every callback added between
\* two enqueue_data calls has been or will be invoked with exactly the samples
\* of its category enqueued since, each once and in order: what it was invoked
\* with, followed by what waits in its queue, is that list (less the sample
\* being broadcast when that one has not reached its queue yet), whatever the
\* other workers do and however long a callback takes; and enqueue_data can
\* always take its next step, whatever state the workers are in.
C7_EachCallbackInOrder ==
    /\ nstops = 0 =>
          \A c \in CatSet : \A i \in 1..Len(queues[c]) :
              LET w == queues[c][i]
                  all == Stream(c, regAt[w])
                  inflight == ppc # "idle" /\ pcall.cat = c
              IN  regAt[w] >= 0 =>
                    calls[w] \o q[w] =
                        IF inflight /\ ~AlreadyPut(i) THEN AllButLast(all) ELSE all
    /\ ppc = "fetch" => ENABLED EnqueueFetch
    /\ ppc = "put" => ENABLED EnqueuePut

\* C7 witness: two callbacks on one category and two samples enqueued; one
\* callback has been invoked with both, the other is still inside its first
\* invocation with the second sample waiting, and enqueue_data has returned.
C7_Witness ==
    /\ nstops = 0 /\ ppc = "idle" /\ Len(prod) = 2
    /\ \E c \in CatSet :
        /\ Len(queues[c]) = 2
        /\ prod = <<c, c>>
        /\ \E w1, w2 \in Range(queues[c]) :
            /\ regAt[w1] = 0 /\ regAt[w2] = 0
            /\ calls[w1] = <<1, 2>>
            /\ wstate[w2] = "busy" /\ calls[w2] = <<1>> /\ q[w2] = <<2>>

RECURSIVE PreSentinel(_)
\* the items of s before its first sentinel
PreSentinel(s) ==
    IF s = <<>> \/ Head(s) = Sentinel THEN <<>> ELSE <<Head(s)>> \o PreSentinel(Tail(s))

\* C9: a worker that has exited has had its callback invoked with every data
\* item put in its queue before the (first) sentinel, in order; and when no
\* pop_callback, clear_callbacks or shutdown is in progress, every worker whose
\* queue was given a sentinel has exited: the data enqueued before the sentinel
\* is delivered before the stopping operation returns.
C9_GracefulDrain ==
    \A w \in Regs :
        /\ wstate[w] = "dead" => calls[w] = PreSentinel(putlog[w])
        /\ (mpc = "idle" /\ Sentinel \in Range(putlog[w])) => wstate[w] = "dead"

\* C9 witness: a stopping operation has returned and the worker it stopped
\* had two data items queued before the sentinel, both delivered.
C9_Witness ==
    /\ mpc = "idle"
    /\ \E w \in Regs :
        /\ wstate[w] = "dead"
        /\ Len(PreSentinel(putlog[w])) = 2
        /\ calls[w] = PreSentinel(putlog[w])

\* C10: while pop_callback, clear_callbacks or shutdown is in progress on the
\* managing thread, enqueue_data on the producer thread never puts a data item
\* in a queue that already holds its sentinel.
C10_NoPutBehindSentinel ==
    [][(mpc # "idle" /\ ppc = "put" /\ ppc' = "fetch")
          => Sentinel \notin Range(putlog[pcall.target])]_vars

\* the items of s that are enqueue_data calls made after the first n
After(s, n) == SelectSeq(s, LAMBDA k : k > n)

\* C11: once pop_callback(category, index) has returned (the only removal made
\* so far), it has returned the callback that was at that index of that
\* category's list when it was called, the worker of that registration has
\* terminated, and every other registration of then, of the same and of every
\* other category, is still in the three lists in the same order, its worker
\* alive, and has been or will be invoked with every sample of its category
\* enqueued after the return, in order.
C11_PopCallback ==
    (nstops = 1 /\ mpc = "idle" /\ popped.nprod >= 0) =>
        /\ popped.ret = popped.at
        /\ wstate[popped.at] = "dead"
        /\ \A c \in CatSet :
            /\ SubSeq(callbacks[c], 1, Len(popped.others[c])) = popped.others[c]
            /\ SubSeq(queues[c], 1, Len(popped.others[c])) = popped.others[c]
            /\ SubSeq(threads[c], 1, Len(popped.others[c])) = popped.others[c]
            /\ \A i \in 1..Len(popped.others[c]) :
                LET w == queues[c][i]
                    all == Stream(c, popped.nprod)
                    inflight == ppc # "idle" /\ pcall.cat = c /\ pcall.data > popped.nprod
                IN  /\ wstate[w] \in {"waiting", "busy"}
                    /\ After(calls[w] \o q[w], popped.nprod) =
                          IF inflight /\ ~AlreadyPut(i) THEN AllButLast(all) ELSE all

\* C11 witness: of two callbacks on one category the last was popped and
\* returned, its worker is dead, and the remaining one has been invoked with a
\* sample enqueued after the pop returned.
C11_Witness ==
    /\ nstops = 1 /\ mpc = "idle" /\ popped.nprod >= 0 /\ ppc = "idle"
    /\ popped.index = 2 /\ popped.ret = 2
    /\ wstate[2] = "dead"
    /\ Len(queues[popped.cat]) = 1
    /\ \E k \in 1..Len(prod) :
        /\ k > popped.nprod /\ prod[k] = popped.cat
        /\ k \in Range(calls[1])

-----------------------------------------------------------------------------
(* The session: the commands of BLED112 (scan, connect, disconnect,        *)
(* read_attr, write_attr) and MyoRaw (subscribe, its decode handler, run,  *)
(* add_handler, disconnect), called from one application thread on top of  *)
(* the framer, the command channel and the dispatch pool above.            *)

\* self.conn = None
NoConn == -1

\* the 16 bytes of bytes.fromhex('4248124a7f2c4847b9de04a9010006d5')
TargetUuid == <<66, 72, 18, 74, 127, 44, 72, 71, 185, 222, 4, 169, 1, 0, 6, 213>>

\* target_address=None
NoAddress == <<>>

\* two device addresses, as the six numbers of 'aa:bb:cc:dd:ee:ff' in the order written
AddrA == <<1, 2, 3, 4, 5, 6>>

AddrB == <<1, 2, 3, 4, 5, 7>>

\* reversed(...)
RECURSIVE Reverse(_)
Reverse(s) == IF s = <<>> THEN <<>> ELSE Reverse(Tail(s)) \o <<Head(s)>>

\* s[i:j] of Python on a sequence, for 0 <= i <= j
Slice(s, i, j) ==
    IF i >= Len(s) \/ j <= i THEN <<>>
    ELSE SubSeq(s, i + 1, IF j < Len(s) THEN j ELSE Len(s))

\* s[i:]
From(s, i) == Slice(s, i, Len(s))

\* s.endswith(t)
EndsWith(s, t) == Len(s) >= Len(t) /\ SubSeq(s, Len(s) - Len(t) + 1, Len(s)) = t

\* struct 'b': a byte as a signed 8-bit value
S8(b) == IF b >= 128 THEN b - 256 ELSE b

\* struct '<H': two bytes, low first, as an unsigned 16-bit value
U16(lo, hi) == lo + 256 * hi

\* struct '<h': two bytes, low first, as a signed 16-bit value
S16(lo, hi) == IF U16(lo, hi) >= 32768 THEN U16(lo, hi) - 65536 ELSE U16(lo, hi)

\* struct.pack('<H', v)
PackU16(v) == <<v % 256, (v \div 256) % 256>>

\* struct.unpack('<8b', s)
Unpack8b(s) == [i \in 1..Len(s) |-> S8(s[i])]

\* struct.unpack('<nH', s), s of 2n bytes
UnpackH(s) == [i \in 1..(Len(s) \div 2) |-> U16(s[2 * i - 1], s[2 * i])]

\* struct.unpack('<nh', s), s of 2n bytes
Unpackh(s) == [i \in 1..(Len(s) \div 2) |-> S16(s[2 * i - 1], s[2 * i])]

\* None as an argument of enqueue_data; a number n is written <<n>> and a
\* tuple as it is
None == <<>>

\* a decode that ends normally having made these enqueue_data calls
Enqueued(samples) == [raised |-> FALSE, samples |-> samples]

\* a decode ended by an exception (struct.error, IndexError, ValueError, TypeError)
Raised == [raised |-> TRUE, samples |-> <<>>]

Sample(cat, a, b, c) == [cat |-> cat, args |-> <<a, b, c>>]

\* the attribute handles of the four EMG characteristics
EmgHandles == {43, 46, 49, 52}

\* a characteristic number one too high
CharacteristicNumOff(attr) == ((attr - 1) \div 3) - 13

\* int((attr - 1) / 3 - 14)
CharacteristicNum(attr) == ((attr - 1) \div 3) - 14

\* the values of the enumerations Arm, XDirection and Pose
ArmValues == {0, 1, 2}

XDirectionValues == {0, 1, 2}

PoseValues == {0, 1, 2, 3, 4, 5, 255}

\* handle_data(attr, pay) of MyoRaw.subscribe: the enqueue_data calls it makes,
\* or the exception that ends it
HandleData(attr, pay) ==
    IF attr = 39 THEN
        IF Len(pay) < 17 THEN Raised
        ELSE Enqueued(<<Sample("EMG", UnpackH(Slice(pay, 0, 16)), <<pay[17]>>, None)>>)
    ELSE IF attr \in EmgHandles THEN
        IF Len(pay) # 16 THEN Raised
        ELSE Enqueued(<<Sample("EMG", Unpack8b(Slice(pay, 0, 8)), None,
                               <<CharacteristicNum(attr)>>),
                        Sample("EMG", Unpack8b(From(pay, 8)), None,
                               <<CharacteristicNum(attr)>>)>>)
    ELSE IF attr = 28 THEN
        IF Len(pay) < 20 THEN Raised
        ELSE Enqueued(<<Sample("IMU", Unpackh(Slice(pay, 0, 8)), Unpackh(Slice(pay, 8, 14)),
                               Unpackh(Slice(pay, 14, 20)))>>)
    ELSE IF attr = 35 THEN
        IF Len(pay) < 3 THEN Raised
        ELSE IF pay[1] = 1 THEN
            IF pay[2] \in ArmValues /\ pay[3] \in XDirectionValues
            THEN Enqueued(<<Sample("ARM", <<pay[2]>>, <<pay[3]>>, None)>>)
            ELSE Raised
        ELSE IF pay[1] = 2 THEN Enqueued(<<Sample("ARM", <<0>>, <<0>>, None)>>)
        ELSE IF pay[1] = 3 THEN
            IF pay[2] \in PoseValues
            THEN Enqueued(<<Sample("POSE", <<pay[2]>>, None, None)>>)
            ELSE Raised
        ELSE Enqueued(<<>>)
    ELSE IF attr = 17 THEN
        IF Len(pay) # 1 THEN Raised
        ELSE Enqueued(<<Sample("BATTERY", <<pay[1]>>, None, None)>>)
    ELSE Enqueued(<<>>)

\* wrapped_handle_data(packet) around handle_data: nothing for a packet that
\* is not (4, 5); else the attribute handle is bytes 1..2 of the payload and
\* the value starts at byte 5
WrappedHandleData(p) ==
    IF Sig(p) # <<4, 5>> THEN Enqueued(<<>>)
    ELSE IF ExtRaises(p) THEN Raised
    ELSE HandleData(U16(p.payload[2], p.payload[3]), From(p.payload, 5))

\* a < b for two tuples of the same length, as Python compares them
RECURSIVE TupleLess(_, _)
TupleLess(a, b) ==
    IF a = <<>> THEN FALSE
    ELSE IF Head(a) # Head(b) THEN Head(a) < Head(b)
    ELSE TupleLess(Tail(a), Tail(b))

\* the first firmware version of the modern protocol
ModernVersion == <<1, 0, 0, 0>>

\* a comparison that takes the first modern version for a legacy one
IsLegacyOrEqual(version) == version = ModernVersion \/ TupleLess(version, ModernVersion)

\* self.version < (1, 0, 0, 0)
IsLegacy(version) == TupleLess(version, ModernVersion)

\* struct.pack('<4BH5B', 2, 9, 2, 1, f_s, emg_smooth, f_s // emg_hz, imu_hz, 0, 0)
SensorParams == <<2, 9, 2, 1>> \o PackU16(1000) \o <<100, 1000 \div 50, 50, 0, 0>>

\* the write_attr calls of the legacy branch, as <<attribute, value>>
LegacyWrites ==
    <<<<25, <<1, 2, 0, 0>>>>, <<47, <<1, 0>>>>, <<44, <<1, 0>>>>, <<50, <<1, 0>>>>,
      <<53, <<1, 0>>>>, <<40, <<1, 0>>>>, <<29, <<1, 0>>>>, <<25, SensorParams>>>>

\* a modern branch that subscribes to the classifier whenever it is not off
ModernWritesClfOn(m) ==
    (IF m.imu # 0 THEN <<<<29, <<1, 0>>>>>> ELSE <<>>)
    \o (IF m.clf # 0 THEN <<<<36, <<2, 0>>>>>> ELSE <<>>)
    \o (IF m.battery THEN <<<<18, <<1, 16>>>>>> ELSE <<>>)
    \o (IF m.emg \in {3, 2}
        THEN <<<<44, <<1, 0>>>>, <<47, <<1, 0>>>>, <<50, <<1, 0>>>>, <<53, <<1, 0>>>>>>
        ELSE IF m.emg = 1 THEN <<<<40, <<1, 0>>>>>> ELSE <<>>)
    \o <<<<25, <<1, 3, m.emg, m.imu, IF m.clf # 0 THEN 1 ELSE 0>>>>>>

\* the write_attr calls of the modern branch for the modes m
ModernWrites(m) ==
    (IF m.imu # 0 THEN <<<<29, <<1, 0>>>>>> ELSE <<>>)
    \o (IF m.clf = 1 THEN <<<<36, <<2, 0>>>>>> ELSE <<>>)
    \o (IF m.battery THEN <<<<18, <<1, 16>>>>>> ELSE <<>>)
    \o (IF m.emg \in {3, 2}
        THEN <<<<44, <<1, 0>>>>, <<47, <<1, 0>>>>, <<50, <<1, 0>>>>, <<53, <<1, 0>>>>>>
        ELSE IF m.emg = 1 THEN <<<<40, <<1, 0>>>>>> ELSE <<>>)
    \o <<<<25, <<1, 3, m.emg, m.imu, IF m.clf # 0 THEN 1 ELSE 0>>>>>>

\* the write_attr calls of subscribe(emg_mode, imu_mode, clf_state, battery)
SubscribeWrites(version, m) ==
    IF IsLegacy(version) THEN LegacyWrites ELSE ModernWrites(m)

\* one step of a session call: a _send_command, a _wait_event, or a step
\* that does not read the transport
Step(k, cls, cmd, payload) == [k |-> k, cls |-> cls, cmd |-> cmd, payload |-> payload]

SendStep(cls, cmd, payload) == Step("send", cls, cmd, payload)

WaitStep(cls, cmd) == Step("wait", cls, cmd, <<>>)

Simple(k) == Step(k, -1, -1, <<>>)

\* scan up to its read loop: stop-scan, teardown of connections 0, 1 and 2,
\* start-scan
ScanPlan ==
    <<SendStep(6, 4, <<>>), SendStep(3, 0, <<0>>), SendStep(3, 0, <<1>>),
      SendStep(3, 0, <<2>>), SendStep(6, 2, <<1>>), Simple("scanloop")>>

\* scan once a packet matched: stop-scan and return the address
ScanFoundPlan == <<SendStep(6, 4, <<>>), Simple("ret_addr")>>

\* struct.pack('<6sBHHHH', bytes(address), 0, 6, 6, 64, 0), address being the
\* numbers of target_address reversed
ConnectPayload(addr) ==
    Reverse(addr) \o <<0>> \o PackU16(6) \o PackU16(6) \o PackU16(64) \o PackU16(0)

\* connect(target_address)
ConnectPlan(addr) ==
    <<SendStep(6, 3, ConnectPayload(addr)), Simple("setconn"), WaitStep(3, 0),
      Simple("ret_none")>>

\* the body of BLED112.disconnect under "if self.conn is not None"
DisconnectSteps(c) == IF c # NoConn THEN <<SendStep(3, 0, <<c>>)>> ELSE <<>>

\* a disconnect that sends the teardown command whether a link is held or not
DisconnectPlanAlways(c) == <<SendStep(3, 0, <<c % 256>>), Simple("ret_last")>>

\* BLED112.disconnect()
DisconnectPlan(c) ==
    IF c # NoConn THEN DisconnectSteps(c) \o <<Simple("ret_last")>> ELSE <<Simple("ret_none")>>

\* read_attr(attr)
ReadAttrPlan(c, attr) ==
    IF c # NoConn
    THEN <<SendStep(4, 4, <<c>> \o PackU16(attr)), WaitStep(4, 5), Simple("ret_value")>>
    ELSE <<Simple("ret_none")>>

\* the body of write_attr(attr, val) under "if self.conn is not None", with
\* wait_response left at True
WriteAttrSteps(c, attr, val) ==
    IF c # NoConn
    THEN <<SendStep(4, 5, <<c>> \o PackU16(attr) \o <<Len(val)>> \o val), WaitStep(4, 1)>>
    ELSE <<>>

\* write_attr(attr, val)
WriteAttrPlan(c, attr, val) ==
    IF c # NoConn THEN WriteAttrSteps(c, attr, val) \o <<Simple("ret_value")>>
    ELSE <<Simple("ret_none")>>

RECURSIVE WritesSteps(_, _)
\* the write_attr calls ws one after the other
WritesSteps(c, ws) ==
    IF ws = <<>> THEN <<>>
    ELSE WriteAttrSteps(c, Head(ws)[1], Head(ws)[2]) \o WritesSteps(c, Tail(ws))

\* MyoRaw.subscribe: the writes of its branch, then backend.handler = handle_data
SubscribePlan(c, version, m) ==
    WritesSteps(c, SubscribeWrites(version, m)) \o <<Simple("handler_on"), Simple("ret_none")>>

\* a disconnect that tears the link down before it stops the pool
TeardownFirstPlan(c) ==
    <<Simple("handler_off")>> \o DisconnectSteps(c) \o <<Simple("shutdown"), Simple("ret_none")>>

\* MyoRaw.disconnect: handler = None, cpool.shutdown(), backend.disconnect()
MyoDisconnectPlan(c) ==
    <<Simple("handler_off"), Simple("shutdown")>> \o DisconnectSteps(c) \o <<Simple("ret_none")>>

\* MyoRaw.run(): one recv_packet()
RunPlan == <<Simple("run"), Simple("ret_none")>>

\* ---- the dongle, as far as the session goes

\* the response to the connect command: a result and the connection handle
ConnectResponse == <<0, 0, 1>>

\* the response to any other command
PlainResponse == <<0, 0>>

\* the value of an attribute that is read
AttrValue == <<42>>

\* an attribute value event: connection, attribute handle, type, length, value
AttrEvent(c, attr, value) ==
    DevFrame(128, <<4, 5>>, <<c>> \o PackU16(attr) \o <<1, Len(value)>> \o value)

\* an advertisement event (6, 0): rssi, packet type, sender (low byte first),
\* address type, bond, data length, data
AdvEvent(addr, data) ==
    DevFrame(128, <<6, 0>>, <<200, 0>> \o Reverse(addr) \o <<0, 255, Len(data)>> \o data)

\* a connection status event (3, 0)
StatusEvent == DevFrame(128, <<3, 0>>, <<1, 5>>)

\* what the dongle sends in reply to a command: its response, and the event
\* that confirms a connect (3, 0), a write (4, 1) or a read (4, 5)
Replies(st) ==
    {DevFrame(0, <<st.cls, st.cmd>>,
              IF <<st.cls, st.cmd>> = <<6, 3>> THEN ConnectResponse ELSE PlainResponse)}
    \cup (IF <<st.cls, st.cmd>> = <<6, 3>> THEN {StatusEvent}
          ELSE IF <<st.cls, st.cmd>> = <<4, 5>>
          THEN {DevFrame(128, <<4, 1>>, <<st.payload[1], 0, 0, st.payload[2], st.payload[3]>>)}
          ELSE IF <<st.cls, st.cmd>> = <<4, 4>>
          THEN {AttrEvent(st.payload[1], U16(st.payload[2], st.payload[3]), AttrValue)}
          ELSE {})

\* the events the dongle may send unasked during a session: a connection
\* status and a notification of the first EMG characteristic, whose 16 bytes
\* here are those of the target UUID
SessEvents == {StatusEvent, AttrEvent(1, 43, TargetUuid)}

\* the events the dongle may send unasked during a scan: advertisements of two
\* devices with the target UUID and of one without, and the notification
ScanEvents ==
    {AdvEvent(AddrA, <<2, 1, 6>> \o TargetUuid), AdvEvent(AddrB, TargetUuid),
     AdvEvent(AddrA, <<2, 1, 6>>), AttrEvent(1, 43, TargetUuid)}

RECURSIVE ReadPacket(_, _, _)
\* recv_packet() without a timeout on a transport holding these bytes: bytes
\* are given to _proc_byte until it returns a packet
ReadPacket(b, pl, bytes) ==
    IF bytes = <<>> THEN [ret |-> NoPacket, buf |-> b, packet_len |-> pl, rest |-> <<>>]
    ELSE LET r == ProcByte(b, pl, Head(bytes))
         IN  IF r.ret # NoPacket
             THEN [ret |-> r.ret, buf |-> r.buf, packet_len |-> r.packet_len,
                   rest |-> Tail(bytes)]
             ELSE ReadPacket(r.buf, r.packet_len, Tail(bytes))

\* a connection handle read from the front of the response
FirstByte(payload) == payload[1]

\* list(conn_pkt.payload)[-1]
LastByte(payload) == payload[Len(payload)]

\* the address scan returns: payload[2:8] reversed
AddressOf(p) == Reverse(Slice(p.payload, 2, 8))

\* scan's test of a packet read in its loop
ScanMatches(p, target) ==
    /\ EndsWith(p.payload, TargetUuid)
    /\ target = NoAddress \/ target = AddressOf(p)

\* what a session call returns: None, a packet, or bytes
RetNone == [kind |-> "none", pkt |-> NoPacket, bytes |-> <<>>]

RetPacket(p) == [kind |-> "packet", pkt |-> p, bytes |-> <<>>]

RetBytes(b) == [kind |-> "bytes", pkt |-> NoPacket, bytes |-> b]

\* the modes of a subscribe call
NoModes == [emg |-> 0, imu |-> 0, clf |-> 0, battery |-> FALSE]

NoSessOp ==
    [name |-> "none", addr |-> <<>>, attr |-> -1, version |-> <<>>, modes |-> NoModes,
     conn0 |-> NoConn, w0 |-> 0, rx0 |-> 0, enq0 |-> 0, found |-> <<>>]

\* the variables of the command channel and of the pool that a session
\* leaves alone
chanRest == <<pc, op, elapsed, ret, outcome, nsent, nops>>

poolRest == <<regAt, ppc, pcall, prod, mpc, mop, nstops, shutMark, popped>>

\* BLED112.__init__: self.conn = None; no call made yet
InitSess ==
    /\ conn = NoConn
    /\ spc = "idle"
    /\ sop = NoSessOp
    /\ plan = <<>>
    /\ last = NoPacket
    /\ sret = RetNone
    /\ soutcome = "none"
    /\ owed = {}
    /\ enq = <<>>
    /\ nev = 0
    /\ nsops = 0

\* the dongle sends a frame it owes in reply to a command; like every frame it
\* arrives whole, once the reader has taken the one before, and while the
\* application thread is blocked in a read: a frame that arrives between two
\* reads is found by the next one just the same
SessDeviceReply ==
    /\ ser = <<>>
    /\ spc \in {"send", "wait", "scan", "run"}
    /\ \E f \in owed :
        /\ ser' = FrameBytes(f)
        /\ owed' = owed \ {f}
    /\ UNCHANGED <<written, internal, res, external, rx, hev, intLog, extLog, chanRest>>
    /\ UNCHANGED <<conn, spc, sop, plan, last, sret, soutcome, enq, nev, nsops>>
    /\ UNCHANGED <<framerVars, feedVars, poolVars>>

\* the dongle sends an event nobody asked for
SessDeviceEvent(frames) ==
    /\ ser = <<>>
    /\ spc \in {"send", "wait", "scan", "run"}
    /\ nev < MaxEvents
    /\ \E f \in frames : ser' = FrameBytes(f)
    /\ nev' = nev + 1
    /\ UNCHANGED <<written, internal, res, external, rx, hev, intLog, extLog, chanRest>>
    /\ UNCHANGED <<conn, spc, sop, plan, last, sret, soutcome, owed, enq, nsops>>
    /\ UNCHANGED <<framerVars, feedVars, poolVars>>

\* a session call begins: its steps are laid out
SessCall(name, addr, attr, version, modes, steps) ==
    /\ spc = "idle"
    /\ nsops < MaxSessOps
    /\ sop' = [NoSessOp EXCEPT !.name = name, !.addr = addr, !.attr = attr,
                               !.version = version, !.modes = modes, !.conn0 = conn,
                               !.w0 = Len(written), !.rx0 = Len(rx), !.enq0 = Len(enq)]
    /\ plan' = steps
    /\ spc' = "next"
    /\ last' = NoPacket
    /\ sret' = RetNone
    /\ soutcome' = "none"
    /\ nsops' = nsops + 1
    /\ UNCHANGED <<conn, owed, enq, nev>>
    /\ UNCHANGED <<framerVars, feedVars, chanVars, poolVars>>

\* scan(target_uuid, target_address)
SessCallScan ==
    \E t \in {NoAddress, AddrA} : SessCall("scan", t, -1, <<>>, NoModes, ScanPlan)

\* connect(target_address)
SessCallConnect == SessCall("connect", AddrA, -1, <<>>, NoModes, ConnectPlan(AddrA))

\* BLED112.disconnect()
SessCallDisconnect == SessCall("disconnect", <<>>, -1, <<>>, NoModes, DisconnectPlan(conn))

\* read_attr(0x11)
SessCallReadAttr == SessCall("read_attr", <<>>, 17, <<>>, NoModes, ReadAttrPlan(conn, 17))

\* write_attr(0x19, b'\x03\x01\x01'), as MyoRaw.vibrate does
SessCallWriteAttr ==
    SessCall("write_attr", <<>>, 25, <<>>, NoModes, WriteAttrPlan(conn, 25, <<3, 1, 1>>))

\* MyoRaw.subscribe(emg_mode, imu_mode, clf_state, battery) with self.version
SessCallSubscribe(versions, modes) ==
    \E v \in versions : \E m \in modes :
        SessCall("subscribe", <<>>, -1, v, m, SubscribePlan(conn, v, m))

\* MyoRaw.disconnect()
SessCallMyoDisconnect ==
    SessCall("myo_disconnect", <<>>, -1, <<>>, NoModes, MyoDisconnectPlan(conn))

\* MyoRaw.run()
SessCallRun == SessCall("run", <<>>, -1, <<>>, NoModes, RunPlan)

RECURSIVE EnqueueAll(_, _, _, _)
\* cpool.enqueue_data(category, ...) for each sample in turn, the samples being
\* numbered from base + 1: the number is put in every queue of the category
\* (log: in the put history of the queue).  Categories outside CatSet have no
\* callback in this model.
EnqueueAll(qq, samples, base, log) ==
    IF samples = <<>> THEN qq
    ELSE LET c == Head(samples).cat
             nq == [w \in Regs |->
                      IF c \in CatSet /\ w \in Range(queues[c])
                      THEN (IF log THEN Append(qq[w], base + 1) ELSE PutData(qq[w], base + 1))
                      ELSE qq[w]]
         IN  EnqueueAll(nq, Tail(samples), base + 1, log)

\* the enqueue_data calls made for packet rx[n], as history entries
EnqEntries(samples, n) ==
    [i \in 1..Len(samples) |-> [cat |-> samples[i].cat, args |-> samples[i].args, rxi |-> n]]

\* _send_command: self.ser.write(s); the dongle will answer
SessSend ==
    /\ spc = "next" /\ plan # <<>> /\ Head(plan).k = "send"
    /\ LET st == Head(plan)
       IN  /\ written' = Append(written, CommandBytes(st.cls, st.cmd, st.payload))
           /\ owed' = owed \cup Replies(st)
    /\ spc' = "send"
    /\ plan' = Tail(plan)
    /\ UNCHANGED <<ser, internal, res, external, rx, hev, intLog, extLog, chanRest>>
    /\ UNCHANGED <<conn, sop, last, sret, soutcome, enq, nev, nsops>>
    /\ UNCHANGED <<framerVars, feedVars, poolVars>>

\* _wait_event(cls, cmd): res = [None], the closure h is installed
SessWait ==
    /\ spc = "next" /\ plan # <<>> /\ Head(plan).k = "wait"
    /\ internal' = <<Head(plan).cls, Head(plan).cmd>>
    /\ res' = NoPacket
    /\ spc' = "wait"
    /\ plan' = Tail(plan)
    /\ UNCHANGED <<ser, written, external, rx, hev, intLog, extLog, chanRest>>
    /\ UNCHANGED <<conn, sop, last, sret, soutcome, owed, enq, nev, nsops>>
    /\ UNCHANGED <<framerVars, feedVars, poolVars>>

\* connect: self.conn = list(conn_pkt.payload)[-1], an IndexError on an empty payload
SessSetConn ==
    /\ spc = "next" /\ plan # <<>> /\ Head(plan).k = "setconn"
    /\ IF last.payload = <<>>
       THEN /\ spc' = "idle" /\ soutcome' = "raised" /\ plan' = <<>>
            /\ UNCHANGED conn
       ELSE /\ conn' = LastByte(last.payload)
            /\ plan' = Tail(plan)
            /\ UNCHANGED <<spc, soutcome>>
    /\ UNCHANGED <<sop, last, sret, owed, enq, nev, nsops>>
    /\ UNCHANGED <<framerVars, feedVars, chanVars, poolVars>>

\* scan enters its read loop, or run calls recv_packet
SessEnterRead ==
    /\ spc = "next" /\ plan # <<>> /\ Head(plan).k \in {"scanloop", "run"}
    /\ spc' = IF Head(plan).k = "scanloop" THEN "scan" ELSE "run"
    /\ plan' = Tail(plan)
    /\ UNCHANGED <<conn, sop, last, sret, soutcome, owed, enq, nev, nsops>>
    /\ UNCHANGED <<framerVars, feedVars, chanVars, poolVars>>

\* backend.handler = handle_data (subscribe) or None (MyoRaw.disconnect)
SessSetHandler ==
    /\ spc = "next" /\ plan # <<>> /\ Head(plan).k \in {"handler_on", "handler_off"}
    /\ external' = (Head(plan).k = "handler_on")
    /\ plan' = Tail(plan)
    /\ UNCHANGED <<ser, written, internal, res, rx, hev, intLog, extLog, chanRest>>
    /\ UNCHANGED <<conn, spc, sop, last, sret, soutcome, owed, enq, nev, nsops>>
    /\ UNCHANGED <<framerVars, feedVars, poolVars>>

\* cpool.shutdown(), first loop: the sentinel is put in every queue
SessShutdown ==
    /\ spc = "next" /\ plan # <<>> /\ Head(plan).k = "shutdown"
    /\ q' = [w \in Regs |-> IF w \in Range(Flatten(queues, 1)) THEN PutSentinel(q[w]) ELSE q[w]]
    /\ putlog' = [w \in Regs |->
                    IF w \in Range(Flatten(queues, 1)) THEN Append(putlog[w], Sentinel)
                    ELSE putlog[w]]
    /\ spc' = "join"
    /\ plan' = Tail(plan)
    /\ UNCHANGED <<queues, callbacks, threads, wstate, calls, nregs, poolRest>>
    /\ UNCHANGED <<conn, sop, last, sret, soutcome, owed, enq, nev, nsops>>
    /\ UNCHANGED <<framerVars, feedVars, chanVars>>

\* cpool.shutdown(), second loop: every thread has been joined
SessJoin ==
    /\ spc = "join"
    /\ \A w \in Range(Flatten(threads, 1)) : Joined(w)
    /\ spc' = "next"
    /\ UNCHANGED <<conn, sop, plan, last, sret, soutcome, owed, enq, nev, nsops>>
    /\ UNCHANGED <<framerVars, feedVars, chanVars, poolVars>>

\* the call returns: None, the response (disconnect), ble_payload[5:]
\* (read_attr, write_attr) or the address found (scan)
SessReturn ==
    /\ spc = "next" /\ plan # <<>>
    /\ Head(plan).k \in {"ret_none", "ret_last", "ret_value", "ret_addr"}
    /\ sret' = IF Head(plan).k = "ret_last" THEN RetPacket(last)
               ELSE IF Head(plan).k = "ret_value" THEN RetBytes(From(last.payload, 5))
               ELSE IF Head(plan).k = "ret_addr" THEN RetBytes(sop.found)
               ELSE RetNone
    /\ spc' = "idle"
    /\ soutcome' = "returned"
    /\ plan' = <<>>
    /\ UNCHANGED <<conn, sop, last, owed, enq, nev, nsops>>
    /\ UNCHANGED <<framerVars, feedVars, chanVars, poolVars>>

\* MyoRaw.add_handler(category, handler): cpool.add_callback
SessAddHandler ==
    /\ spc = "idle"
    /\ nregs < MaxHandlers
    /\ \E c \in CatSet :
        LET w == nregs + 1
        IN  /\ callbacks' = [callbacks EXCEPT ![c] = Append(@, w)]
            /\ queues' = [queues EXCEPT ![c] = Append(@, w)]
            /\ threads' = [threads EXCEPT ![c] = Append(@, w)]
            /\ wstate' = [wstate EXCEPT ![w] = "waiting"]
    /\ nregs' = nregs + 1
    /\ sop' = [NoSessOp EXCEPT !.name = "add_handler", !.conn0 = conn, !.w0 = Len(written),
                               !.rx0 = Len(rx), !.enq0 = Len(enq)]
    /\ soutcome' = "returned"
    /\ sret' = RetNone
    /\ UNCHANGED <<q, calls, putlog, poolRest>>
    /\ UNCHANGED <<conn, spc, plan, last, owed, enq, nev, nsops>>
    /\ UNCHANGED <<framerVars, feedVars, chanVars>>

\* One recv_packet() of a blocked call and what follows in the same thread
\* before the next read: the bytes of a frame go through _proc_byte; an event
\* is passed to _handle_event, whose external handler is the wrapper around
\* handle_data; then the caller reacts:
\*   _send_command: a response ends it, anything else goes to _handle_event
\*                  once more;
\*   _wait_event:   ends once res[0] is set, and the closure is uninstalled;
\*   scan:          a matching packet ends the loop, stop-scan comes next;
\*   run:           returns.
\* An exception raised by a handler ends the call.
SessRecv ==
    /\ spc \in {"send", "wait", "scan", "run"}
    /\ LET r == ReadPacket(buf, packet_len, ser)
           p == r.ret
           n == Len(rx) + 1
           h1 == IF IsEvent(p) THEN HandleEvent(HState, n, p) ELSE HState
           d1 == IF IsEvent(p) /\ external THEN WrappedHandleData(p) ELSE Enqueued(<<>>)
           again == spc = "send" /\ ~d1.raised /\ ~IsResponse(p)
           h2 == IF again THEN HandleEvent(h1, n, p) ELSE h1
           d2 == IF again /\ external THEN WrappedHandleData(p) ELSE Enqueued(<<>>)
           raised == d1.raised \/ d2.raised
           samples == d1.samples \o d2.samples
           matched == ~raised /\ spc = "scan" /\ ScanMatches(p, sop.addr)
           done == /\ ~raised
                   /\ \/ spc = "run"
                      \/ spc = "send" /\ IsResponse(p)
                      \/ spc = "wait" /\ h2.res # NoPacket
                      \/ matched
       IN  /\ p # NoPacket
           /\ ser' = r.rest
           /\ buf' = r.buf
           /\ packet_len' = r.packet_len
           /\ rx' = Append(rx, p)
           /\ hev' = h2.hev
           /\ intLog' = h2.intLog
           /\ extLog' = h2.extLog
           /\ res' = h2.res
           /\ internal' = IF spc = "wait" /\ done THEN InternalAfterWait ELSE internal
           /\ enq' = enq \o EnqEntries(samples, n)
           /\ q' = EnqueueAll(q, samples, Len(enq), FALSE)
           /\ putlog' = EnqueueAll(putlog, samples, Len(enq), TRUE)
           /\ spc' = IF raised THEN "idle" ELSE IF done THEN "next" ELSE spc
           /\ soutcome' = IF raised THEN "raised" ELSE soutcome
           /\ plan' = IF raised THEN <<>> ELSE IF matched THEN ScanFoundPlan ELSE plan
           /\ last' = IF done THEN (IF spc = "wait" THEN h2.res ELSE p) ELSE last
           /\ sop' = IF matched THEN [sop EXCEPT !.found = AddressOf(p)] ELSE sop
    /\ UNCHANGED <<written, external, chanRest>>
    /\ UNCHANGED <<queues, callbacks, threads, wstate, calls, nregs, poolRest>>
    /\ UNCHANGED <<conn, sret, owed, nev, nsops>>
    /\ UNCHANGED feedVars

\* a session: every call of the backend and of MyoRaw, the dongle and the
\* consumer threads
NextSess ==
    \/ SessDeviceReply
    \/ SessDeviceEvent(SessEvents)
    \/ SessCallConnect
    \/ SessCallDisconnect
    \/ SessCallReadAttr
    \/ SessCallWriteAttr
    \/ SessCallSubscribe({ModernVersion}, {NoModes})
    \/ SessCallMyoDisconnect
    \/ SessCallRun
    \/ SessAddHandler
    \/ SessSend
    \/ SessWait
    \/ SessSetConn
    \/ SessEnterRead
    \/ SessSetHandler
    \/ SessShutdown
    \/ SessJoin
    \/ SessReturn
    \/ SessRecv
    \/ \E w \in Regs : WorkerGet(w)
    \/ \E w \in Regs : WorkerReturn(w)

\* scans, with a dongle that answers and advertisements coming in
NextScan ==
    \/ SessDeviceReply
    \/ SessDeviceEvent(ScanEvents)
    \/ SessCallScan
    \/ SessSend
    \/ SessEnterRead
    \/ SessReturn
    \/ SessRecv

\* commands that wait for their confirmation, with a dongle that answers
NextCmd ==
    \/ SessDeviceReply
    \/ SessCallConnect
    \/ SessCallReadAttr
    \/ SessCallWriteAttr
    \/ SessSend
    \/ SessWait
    \/ SessSetConn
    \/ SessReturn
    \/ SessRecv

\* firmware versions on both sides of (1, 0, 0, 0)
SubVersions == {<<0, 9, 0, 0>>, <<0, 65535, 65535, 65535>>, <<1, 0, 0, 0>>, <<2, 0, 0, 0>>}

\* the default modes, everything off, and the smoothed EMG alone
SubModes ==
    {[emg |-> 3, imu |-> 1, clf |-> 1, battery |-> TRUE], NoModes,
     [emg |-> 1, imu |-> 0, clf |-> 2, battery |-> FALSE]}

\* subscribe on a link (or without one) with a dongle that answers
NextSub ==
    \/ SessDeviceReply
    \/ SessCallConnect
    \/ SessCallSubscribe(SubVersions, SubModes)
    \/ SessSend
    \/ SessWait
    \/ SessSetConn
    \/ SessSetHandler
    \/ SessReturn
    \/ SessRecv

\* the values of the enumerations EMGMode, IMUMode and CLFState
EMGModeValues == {0, 1, 2, 3}

IMUModeValues == {0, 1, 2, 3, 4}

CLFStateValues == {0, 1, 2}

\* every combination of (emg_mode, imu_mode, clf_state, battery)
AllModes ==
    [emg : EMGModeValues, imu : IMUModeValues, clf : CLFStateValues, battery : BOOLEAN]

\* one subscribe of a modern firmware with any modes, made once connect has
\* returned, with a dongle that answers
NextModern ==
    \/ SessDeviceReply
    \/ SessCallConnect
    \/ /\ sop.name = "connect" /\ soutcome = "returned"
       /\ SessCallSubscribe({ModernVersion, <<1, 0, 0, 1>>}, AllModes)
    \/ SessSend
    \/ SessWait
    \/ SessSetConn
    \/ SessSetHandler
    \/ SessReturn
    \/ SessRecv

\* sixteen bytes on both sides of the sign
EmgBytes == <<0, 1, 127, 128, 129, 255, 64, 200, 255, 254, 128, 127, 1, 0, 100, 156>>

\* the notifications the dongle sends once subscribed: the four EMG
\* characteristics with 16 bytes, one with 15, and the battery level
NotifFrames ==
    {AttrEvent(1, h, EmgBytes) : h \in EmgHandles}
    \cup {AttrEvent(1, 43, SubSeq(EmgBytes, 1, 15)), AttrEvent(1, 17, <<42>>)}

\* the decode handler installed, handlers added, and run() reading notifications
NextDecode ==
    \/ SessDeviceEvent(NotifFrames)
    \/ SessCallSubscribe({ModernVersion}, {NoModes})
    \/ SessCallRun
    \/ SessAddHandler
    \/ SessEnterRead
    \/ SessSetHandler
    \/ SessReturn
    \/ SessRecv
    \/ \E w \in Regs : WorkerGet(w)
    \/ \E w \in Regs : WorkerReturn(w)

-----------------------------------------------------------------------------
(* Session claims *)

\* the session call named has returned normally and none was made since
SReturned(name) == sop.name = name /\ spc = "idle" /\ soutcome = "returned"

\* indices in rx of the packets received since the session call began
SRx == (sop.rx0 + 1)..Len(rx)

\* the commands written since the session call began
SWritten == SubSeq(written, sop.w0 + 1, Len(written))

\* whether a connect command (6, 3) has been written so far
ConnectWritten == \E i \in 1..Len(written) : written[i][3] = 6 /\ written[i][4] = 3

\* C12: the connection handle is None as long as no connect was made, holds
\* the handle of the link when connect has returned, and is None again when
\* disconnect (of the backend or of MyoRaw) has returned.
C12_ConnAbsentAfterDisconnect ==
    /\ ~ConnectWritten => conn = NoConn
    /\ SReturned("connect") => conn # NoConn
    /\ (SReturned("disconnect") \/ SReturned("myo_disconnect")) => conn = NoConn

\* the calls that need a connection, made without one
NoConnCall == sop.name \in {"read_attr", "write_attr", "disconnect"} /\ sop.conn0 = NoConn

\* C13: read_attr, write_attr and disconnect called while conn is None return
\* None without raising; from the call to the return nothing is written to the
\* transport, nothing is read from it, and the connection handle, the handlers,
\* the framer buffer and the samples enqueued stay as they were.
C13_NoConnectionNoTraffic ==
    /\ [](NoConnCall => /\ soutcome # "raised"
                        /\ Len(written) = sop.w0 /\ Len(rx) = sop.rx0
                        /\ conn = NoConn
                        /\ spc \in {"next", "idle"}
                        /\ spc = "idle" => (soutcome = "returned" /\ sret = RetNone))
    /\ [][NoConnCall' =>
            /\ written' = written /\ ser' = ser /\ rx' = rx /\ buf' = buf
            /\ conn' = conn /\ internal' = internal /\ external' = external
            /\ enq' = enq /\ owed' = owed /\ hev' = hev]_vars

\* C13 witness: with the decode handler installed and no link, a read_attr has
\* returned None.
C13_Witness ==
    /\ SReturned("read_attr") /\ sop.conn0 = NoConn /\ sret = RetNone
    /\ external

\* whether rx[i] is the first response received since the call began
FirstResponse(i) == i \in SRx /\ rx[i].typ = 0 /\ \A j \in SRx : j < i => rx[j].typ # 0

\* whether rx[i] is a connection status event
IsStatus(i) == rx[i].typ = 128 /\ rx[i].cls = 3 /\ rx[i].cmd = 0

\* C14: connect sets conn to the last payload byte of the response to its
\* command, and when it has returned, the last packet received is a
\* connection status event (3, 0) that came after that response, the first
\* such event after it; as long as none has come after the response, connect
\* has not returned.
C14_ConnectAwaitsStatus ==
    sop.name = "connect" =>
        /\ \A r \in SRx : (FirstResponse(r) /\ ~(spc = "next" /\ plan # <<>> /\ Head(plan).k = "setconn"))
              => conn = rx[r].payload[Len(rx[r].payload)]
        /\ (\A r \in SRx : FirstResponse(r) => \A j \in SRx : j > r => ~IsStatus(j))
              => ~SReturned("connect")
        /\ SReturned("connect") =>
              \E r \in SRx :
                  /\ FirstResponse(r)
                  /\ Len(rx) > r /\ IsStatus(Len(rx))
                  /\ \A j \in SRx : (r < j /\ j < Len(rx)) => ~IsStatus(j)

\* C14 witness: connect has returned; a status event had arrived before the
\* response of the command, and another one after it.
C14_Witness ==
    /\ SReturned("connect")
    /\ conn = 1
    /\ \E r \in SRx : FirstResponse(r) /\ \E j \in SRx : j < r /\ IsStatus(j)

\* the commands of a complete scan, as written to the transport
ScanCommands ==
    <<<<0, 0, 6, 4>>, <<0, 1, 3, 0, 0>>, <<0, 1, 3, 0, 1>>, <<0, 1, 3, 0, 2>>,
      <<0, 1, 6, 2, 1>>, <<0, 0, 6, 4>>>>

\* whether rx[i] was read by the loop of scan: after the response to start-scan,
\* the fifth response since the call began
InScanLoop(i) ==
    \E r \in SRx :
        /\ rx[r].typ = 0
        /\ Cardinality({j \in SRx : j < r /\ rx[j].typ = 0}) = 4
        /\ r < i /\ i \in SRx

\* whether rx[i] has a payload ending with the target UUID and, when scan was
\* given an address, carries that address; with adv, also whether it is an
\* advertisement event (6, 0)
ScanTarget(i, adv) ==
    /\ EndsWith(rx[i].payload, TargetUuid)
    /\ sop.addr = NoAddress \/ sop.addr = Reverse(SubSeq(rx[i].payload, 3, 8))
    /\ adv => (rx[i].typ = 128 /\ rx[i].cls = 6 /\ rx[i].cmd = 0)

\* the order of a scan: its commands are written in the order of ScanCommands;
\* the last of them, stop-scan, is written only once the loop has read a
\* target packet, and is the next thing done then; scan returns the address of
\* the first target packet, after the response to that stop-scan.
ScanOrder(adv) ==
    sop.name = "scan" =>
        /\ Len(SWritten) <= Len(ScanCommands)
        /\ SWritten = SubSeq(ScanCommands, 1, Len(SWritten))
        /\ Len(SWritten) = Len(ScanCommands) => \E i \in SRx : InScanLoop(i) /\ ScanTarget(i, adv)
        /\ spc = "scan" => \A i \in SRx : InScanLoop(i) => ~ScanTarget(i, adv)
        /\ SReturned("scan") =>
              /\ Len(SWritten) = Len(ScanCommands)
              /\ rx[Len(rx)].typ = 0
              /\ \E i \in SRx :
                  /\ InScanLoop(i) /\ ScanTarget(i, adv)
                  /\ \A j \in SRx : (InScanLoop(j) /\ j < i) => ~ScanTarget(j, adv)
                  /\ sret = RetBytes(Reverse(SubSeq(rx[i].payload, 3, 8)))

\* C15: scan writes stop-scan, the teardown of slots 0, 1 and 2 and start-scan
\* in this order, then nothing until an advertisement event read by its loop
\* has a payload ending with the target UUID (and the target address, if one
\* was given), then stop-scan, and returns that packet's address: it never
\* returns with the scan running.
C15_ScanStopsOnAdvertisement == ScanOrder(TRUE)

\* whether MyoRaw.disconnect has written its teardown command
Tearing == sop.name = "myo_disconnect" /\ Len(written) > sop.w0

\* every consumer thread ever started has terminated
AllWorkersDead == \A w \in Regs : wstate[w] \in {"none", "dead"}

\* C16: once MyoRaw.disconnect has written the link-teardown command, and once
\* it has returned, the decode handler is detached and every consumer thread
\* has terminated; from the start of the call no sample is enqueued, whatever
\* events arrive while the teardown command awaits its response; and after it,
\* as long as the handler stays detached no step enqueues a sample, and as
\* long as no handler is added no step invokes a callback.
C16_DisconnectOrder ==
    /\ []((Tearing \/ SReturned("myo_disconnect")) =>
            /\ ~external
            /\ AllWorkersDead
            /\ Len(enq) = sop.enq0)
    /\ [](sop.name = "myo_disconnect" => Len(enq) = sop.enq0)
    /\ [][~external => enq' = enq]_vars
    /\ [][AllWorkersDead => calls' = calls]_vars

\* C16 witness: MyoRaw.disconnect has returned on a link with a handler added
\* and a sample enqueued earlier; a notification arrived while the teardown
\* command awaited its response.
C16_Witness ==
    /\ SReturned("myo_disconnect")
    /\ sop.conn0 # NoConn
    /\ \E w \in Regs : wstate[w] = "dead"
    /\ \E i \in SRx : rx[i].typ = 128 /\ rx[i].cls = 4 /\ rx[i].cmd = 5
    /\ enq # <<>>

\* a write_attr command as written to the transport, read back as
\* <<attribute handle, value>>: header (4 bytes), connection, handle, length, value
WriteOf(s) == <<s[6] + 256 * s[7], SubSeq(s, 9, Len(s))>>

\* the writes made since the call began
WritesMade == [i \in 1..Len(SWritten) |-> WriteOf(SWritten[i])]

\* the legacy attribute sequence: 0x19, the subscriptions 0x2f, 0x2c, 0x32,
\* 0x35, 0x28, 0x1d, and the sensor parameters to 0x19
LegacySequence ==
    <<<<25, <<1, 2, 0, 0>>>>, <<47, <<1, 0>>>>, <<44, <<1, 0>>>>, <<50, <<1, 0>>>>,
      <<53, <<1, 0>>>>, <<40, <<1, 0>>>>, <<29, <<1, 0>>>>,
      <<25, <<2, 9, 2, 1, 232, 3, 100, 20, 50, 0, 0>>>>>>

\* the writes only the legacy branch makes
LegacyOnly == {<<25, <<1, 2, 0, 0>>>>, <<25, <<2, 9, 2, 1, 232, 3, 100, 20, 50, 0, 0>>>>}

\* whether a write is the mode-set command of the modern branch
IsModeSet(w) == w[1] = 25 /\ Len(w[2]) = 5 /\ SubSeq(w[2], 1, 2) = <<1, 3>>

\* the version is below (1, 0, 0, 0), the fields compared one after the other
Below1000(v) ==
    \/ v[1] < 1
    \/ v[1] = 1 /\ v[2] < 0
    \/ v[1] = 1 /\ v[2] = 0 /\ v[3] < 0
    \/ v[1] = 1 /\ v[2] = 0 /\ v[3] = 0 /\ v[4] < 0

\* C17: on a link, subscribe with a firmware version below (1, 0, 0, 0) writes
\* the legacy sequence and nothing else, whatever the modes; with a version at
\* or above it, it writes none of the writes of the legacy branch, only
\* subscriptions the modes select, ending with one mode-set write to 0x19.
C17_LegacyOrModern ==
    (sop.name = "subscribe" /\ sop.conn0 # NoConn) =>
        IF Below1000(sop.version)
        THEN /\ Len(WritesMade) <= Len(LegacySequence)
             /\ WritesMade = SubSeq(LegacySequence, 1, Len(WritesMade))
             /\ SReturned("subscribe") => WritesMade = LegacySequence
        ELSE /\ \A i \in 1..Len(WritesMade) :
                   /\ WritesMade[i] \notin LegacyOnly
                   /\ IsModeSet(WritesMade[i]) => i = Len(WritesMade)
                   /\ WritesMade[i][1] = 29 => sop.modes.imu # 0
                   /\ WritesMade[i][1] = 36 => sop.modes.clf = 1
                   /\ WritesMade[i][1] = 18 => sop.modes.battery
                   /\ WritesMade[i][1] \in {44, 47, 50, 53} => sop.modes.emg \in {2, 3}
                   /\ WritesMade[i][1] = 40 => sop.modes.emg = 1
                   /\ WritesMade[i][1] \in {25, 29, 36, 18, 44, 47, 50, 53, 40}
             /\ SReturned("subscribe") =>
                   /\ WritesMade # <<>>
                   /\ WritesMade[Len(WritesMade)] =
                        <<25, <<1, 3, sop.modes.emg, sop.modes.imu,
                                IF sop.modes.clf = 0 THEN 0 ELSE 1>>>>

\* C17 witness: on a link, a subscribe with version (0, 65535, 65535, 65535)
\* and the default modes has returned after its eight writes.
C17_Witness ==
    /\ SReturned("subscribe") /\ sop.conn0 # NoConn
    /\ sop.version = <<0, 65535, 65535, 65535>>
    /\ sop.modes.emg = 3
    /\ Len(WritesMade) = 8

\* the number of times n occurs in the log s
Count(s, n) == Cardinality({k \in 1..Len(s) : s[k] = n})

\* the enqueue_data calls made for packet rx[n], in order, without the packet number
SamplesOf(n) ==
    LET mine == SelectSeq(enq, LAMBDA e : e.rxi = n)
    IN  [i \in 1..Len(mine) |-> [cat |-> mine[i].cat, args |-> mine[i].args]]

\* whether rx[n] is a notification of an EMG characteristic with a 16-byte value
IsEmgNotification(n) ==
    /\ rx[n].typ = 128 /\ rx[n].cls = 4 /\ rx[n].cmd = 5
    /\ Len(rx[n].payload) = 21
    /\ rx[n].payload[2] \in {43, 46, 49, 52} /\ rx[n].payload[3] = 0

\* a byte as a signed 8-bit value, two's complement
Signed(b) == IF b < 128 THEN b ELSE b - 256

\* the characteristic index of the handles 0x2b, 0x2e, 0x31, 0x34
IndexOf(h) == IF h = 43 THEN 0 ELSE IF h = 46 THEN 1 ELSE IF h = 49 THEN 2 ELSE 3

\* the two samples of an EMG notification: bytes 0..7 and bytes 8..15 of the
\* value (bytes 6..21 of the payload, counted from 1), signed, each with the
\* characteristic index
TwoSamples(n) ==
    LET pay == rx[n].payload
        num == IndexOf(pay[2])
    IN  <<[cat |-> "EMG", args |-> <<[i \in 1..8 |-> Signed(pay[5 + i])], <<>>, <<num>>>>],
          [cat |-> "EMG", args |-> <<[i \in 1..8 |-> Signed(pay[13 + i])], <<>>, <<num>>>>]>>

\* C18: each time the decode handler is called with a notification of handle
\* h in {0x2b, 0x2e, 0x31, 0x34} carrying 16 bytes, it enqueues exactly two
\* EMG samples, the signed values of bytes 0..7 then those of bytes 8..15,
\* both with characteristic index (h - 1) / 3 - 14, which is 0, 1, 2, 3 for
\* the four handles.
C18_TwoEmgSamples ==
    \A n \in 1..Len(rx) :
        IsEmgNotification(n) =>
            /\ SamplesOf(n) = IF Count(extLog, n) = 0 THEN <<>>
                              ELSE IF Count(extLog, n) = 1 THEN TwoSamples(n)
                              ELSE TwoSamples(n) \o TwoSamples(n)
            /\ 3 * (IndexOf(rx[n].payload[2]) + 14) = rx[n].payload[2] - 1

\* C18 witness: a notification of handle 0x34 has been decoded into two
\* samples with characteristic index 3, negative values among them, and a
\* consumer callback has been invoked with both.
C18_Witness ==
    \E n \in 1..Len(rx) :
        /\ IsEmgNotification(n) /\ rx[n].payload[2] = 52
        /\ Len(SamplesOf(n)) = 2
        /\ SamplesOf(n)[1].args[3] = <<3>>
        /\ SamplesOf(n)[1].args[1][4] = -128
        /\ \E w \in Regs : Len(calls[w]) >= 2

\* the event that confirms the command of the call in progress
Confirmation ==
    IF sop.name = "connect" THEN <<3, 0>>
    ELSE IF sop.name = "write_attr" THEN <<4, 1>>
    ELSE <<4, 5>>

\* a command call is in progress whose response and whose confirmation event
\* have both been read since it began
BothDelivered ==
    /\ sop.name \in {"connect", "write_attr", "read_attr"}
    /\ \E i \in SRx : rx[i].typ = 0
    /\ \E j \in SRx : rx[j].typ = 128 /\ <<rx[j].cls, rx[j].cmd>> = Confirmation

\* C20: a command followed by a wait for its confirmation event (connect,
\* write_attr, read_attr) returns once its response and its confirmation event
\* have both been read, in whichever order they came: the call is never left
\* blocked in its wait on an empty transport, with nothing more for the dongle
\* to send, after both were read (from such a state it would never return).
C20_ConfirmationNotLost ==
    ~(BothDelivered /\ spc = "wait" /\ ser = <<>> /\ owed = {})

\* the attribute handles written since the call began
Written == {WritesMade[i][1] : i \in 1..Len(WritesMade)}

\* C21: on a link, a subscribe of a firmware at or above (1, 0, 0, 0) that has
\* returned has written 0x1d iff imu_mode is not OFF, 0x24 iff clf_state is
\* ACTIVE, 0x12 iff battery is true, each of 0x2c, 0x2f, 0x32, 0x35 iff emg_mode
\* is RAW or RAW_FILTERED, and 0x28 iff emg_mode is SMOOTHED, never raw and
\* smoothed together; it has written 0x19 once, as its last write, the
\* mode-set command; and the decode handler is installed.
C21_ModernSelective ==
    (SReturned("subscribe") /\ sop.conn0 # NoConn /\ ~Below1000(sop.version)) =>
        /\ 29 \in Written <=> sop.modes.imu # 0
        /\ 36 \in Written <=> sop.modes.clf = 1
        /\ 18 \in Written <=> sop.modes.battery
        /\ \A a \in {44, 47, 50, 53} : a \in Written <=> sop.modes.emg \in {2, 3}
        /\ 40 \in Written <=> sop.modes.emg = 1
        /\ ~(40 \in Written /\ {44, 47, 50, 53} \cap Written # {})
        /\ Cardinality({i \in 1..Len(WritesMade) : WritesMade[i][1] = 25}) = 1
        /\ WritesMade[Len(WritesMade)][1] = 25
        /\ IsModeSet(WritesMade[Len(WritesMade)])
        /\ external

\* C21 witness: on a link, a subscribe of version (1, 0, 0, 1) with smoothed
\* EMG, raw IMU, a passive classifier and the battery has returned after its
\* four writes.
C21_Witness ==
    /\ SReturned("subscribe") /\ sop.conn0 # NoConn
    /\ sop.version = <<1, 0, 0, 1>>
    /\ sop.modes = [emg |-> 1, imu |-> 4, clf |-> 2, battery |-> TRUE]
    /\ Len(WritesMade) = 4
    /\ external

\* the largest frame of the protocol: header, seven low bits, 255 payload bytes
LargestFrame == 4 + 7 + 255

\* C22: whatever bytes have been fed, the buffer never holds more than
\* 4 + 7 + 255 = 266 bytes, and once the length byte has been read (the buffer
\* holds two bytes or more) the packet length is the one computed from the
\* first two bytes and the buffer has not grown past it.
C22_BufferBounded ==
    /\ Len(buf) <= LargestFrame
    /\ Len(buf) >= 2 =>
          /\ packet_len = 4 + (buf[1] % 8) + buf[2]
          /\ Len(buf) <= packet_len

\* C22 witness: after the length byte 255 the buffer holds 258 bytes, one
\* short of the packet length 259.
C22_Witness ==
    /\ Len(buf) = 258
    /\ buf[2] = 255
    /\ packet_len = 259

\* C23: every event packet (type 0x80) read from the transport has been
\* passed to _handle_event exactly once and to the installed decode handler
\* at most once, on whichever path it was read (run, _wait_event,
\* _send_command); an EMG notification has produced its two samples once.
C23_EventDispatchedOnce ==
    \A n \in 1..Len(rx) :
        rx[n].typ = 128 =>
            /\ Count(hev, n) = 1
            /\ Count(extLog, n) <= 1
            /\ IsEmgNotification(n) => Len(SamplesOf(n)) <= 2

\* C24: on a link, a read_attr(h) that has returned has returned the value of
\* an attribute-value event (4, 5) whose attribute handle is h.
C24_ReadAttrOwnHandle ==
    (SReturned("read_attr") /\ sop.conn0 # NoConn) =>
        /\ Sig(last) = <<4, 5>>
        /\ Len(last.payload) >= 5
        /\ U16(last.payload[2], last.payload[3]) = sop.attr
        /\ sret = RetBytes(From(last.payload, 5))

\* C25: with the decode handler installed, run() is never ended by an
\* exception of the decode handler, whatever notification it reads: the
\* handler returns normally and run() returns.
C25_DecodeNeverAborts ==
    ~(sop.name = "run" /\ external /\ soutcome = "raised")


-----------------------------------------------------------------------------
(* Initial state and specifications *)

Init == InitBuf /\ InitFeed /\ InitChan /\ InitPool /\ InitSess

\* the framer fed with byte streams
SpecFramer == Init /\ [][NextFramer]_vars

\* the command channel reading what the dongle sends
SpecChan == Init /\ [][NextChan]_vars

\* the dispatch pool with its producer, its managing thread and its workers
SpecPool == Init /\ [][NextPool]_vars

\* a session of backend and MyoRaw calls
SpecSess == Init /\ [][NextSess]_vars

\* commands and their confirmations
SpecCmd == Init /\ [][NextCmd]_vars

\* scans
SpecScan == Init /\ [][NextScan]_vars

\* subscribe for every firmware version and mode
SpecSub == Init /\ [][NextSub]_vars

\* the decode handler fed with notifications
SpecDecode == Init /\ [][NextDecode]_vars

\* subscribe of a modern firmware for every combination of modes
SpecModern == Init /\ [][NextModern]_vars

\* the framer on a noisy line
SpecNoise == Init /\ [][NextNoise]_vars

====
